---------------------------- MODULE Spec2Model ----------------------------
(***************************************************************************)
(* Model of the two test-data generators of pika-plot:                     *)
(*   src/fresh/test_data/generate_large_test_data.py  (row generator and   *)
(*       the serializer with preamble, empty rows and garbage lines)       *)
(*   src/test_data/generate_large_dataset.py  (grouped records with        *)
(*       duplicates, shuffle, CSV writer)                                  *)
(*                                                                         *)
(* Randomness.  Python's `random` module and numpy's `np.random` are two   *)
(* independent generators, each a deterministic function of its seed.      *)
(* A generator is modelled by the stream of raw units it yields: one unit  *)
(* per library call (random(), choice(), randint(), uniform(), normal(),   *)
(* ...).  A raw unit of `random` is a number u in 0..Scale-1 standing for  *)
(* the uniform variate u/Scale; a raw unit of `np.random` is an integer    *)
(* standard variate.  What the real generators yield for seed 42 is not    *)
(* known to the model, so the model ranges over a family of streams        *)
(* (Generators): a base value everywhere, and one position that deviates.  *)
(***************************************************************************)
EXTENDS Integers, Sequences, FiniteSets, TLC

(* ------------------------------ bounds -------------------------------- *)
\* resolution of one uniform variate of the `random` stream
Scale == 100
\* last stream position at which a stream of the family may deviate
MaxAt == 60
\* rows written by the serializer of generate_large_test_data (100,000 in the source)
NUM_ROWS == 4
\* interval of the injected empty rows (5,000 in the source); the garbage
\* interval is twice it, as 10,000 is twice 5,000
EMPTY_ROW_INTERVAL == 2
\* groups of generate_large_dataset (500 in the source)
NUM_GROUPS == 2
\* largest group size of generate_large_dataset (50 in the source)
MAX_GROUP_SIZE == 2
\* the number of days on which a run of generate_large_dataset.py may fall
RunDays == 2
\* the configured number of records of generate_large_dataset (10,000 in the
\* source, 20 per group; a count the groups of this size can make up)
NUM_RECORDS == 4

(* ------------------------- small arithmetic --------------------------- *)
Max(a, b) == IF a >= b THEN a ELSE b
Min(a, b) == IF a <= b THEN a ELSE b
Abs(a) == IF a < 0 THEN -a ELSE a

RECURSIVE Pow10(_)
Pow10(d) == IF d = 0 THEN 1 ELSE 10 * Pow10(d - 1)

\* Python's round-half-even of the rational num/den (den > 0) to an integer
RoundDiv(num, den) ==
    LET q == num \div den
        r == num % den
    IN  IF 2 * r < den THEN q
        ELSE IF 2 * r > den THEN q + 1
        ELSE IF q % 2 = 0 THEN q ELSE q + 1

(* --------------------------- text formatting -------------------------- *)
DIGITS == <<"0", "1", "2", "3", "4", "5", "6", "7", "8", "9">>

\* the decimal digits of a natural number
StrNat[n \in Nat] == IF n < 10 THEN DIGITS[n + 1] ELSE StrNat[n \div 10] \o DIGITS[(n % 10) + 1]

\* str(n) of a Python int
Str(n) == IF n < 0 THEN "-" \o StrNat[-n] ELSE StrNat[n]

\* f"{n:0wd}" for n >= 0
RECURSIVE ZeroPad(_, _)
ZeroPad(n, w) == IF w <= 1 THEN StrNat[n]
                 ELSE IF n < Pow10(w - 1) THEN "0" \o ZeroPad(n, w - 1)
                 ELSE StrNat[n]

\* f"{x:.df}" where x is the value scaled by 10^d, already rounded
Fixed(x, d) ==
    LET a == Abs(x)
    IN  (IF x < 0 THEN "-" ELSE "") \o StrNat[a \div Pow10(d)] \o "." \o ZeroPad(a % Pow10(d), d)

(* ------------------------------- dates -------------------------------- *)
\* datetime.date(y, m, d) as a day number (days since 1970-01-01)
DaysFromCivil(y, m, d) ==
    LET yy  == IF m <= 2 THEN y - 1 ELSE y
        era == yy \div 400
        yoe == yy - era * 400
        mp  == IF m > 2 THEN m - 3 ELSE m + 9
        doy == (153 * mp + 2) \div 5 + d - 1
        doe == yoe * 365 + yoe \div 4 - yoe \div 100 + doy
    IN  era * 146097 + doe - 719468

\* the (year, month, day) of a day number
CivilFromDays(z0) ==
    LET z   == z0 + 719468
        era == z \div 146097
        doe == z - era * 146097
        yoe == (doe - doe \div 1460 + doe \div 36524 - doe \div 146096) \div 365
        doy == doe - (365 * yoe + yoe \div 4 - yoe \div 100)
        mp  == (5 * doy + 2) \div 153
        d   == doy - (153 * mp + 2) \div 5 + 1
        m   == IF mp < 10 THEN mp + 3 ELSE mp - 9
        y   == yoe + era * 400 + (IF m <= 2 THEN 1 ELSE 0)
    IN  <<y, m, d>>

\* date.strftime('%Y-%m-%d')
StrfDate(z) ==
    LET c == CivilFromDays(z)
    IN  ZeroPad(c[1], 4) \o "-" \o ZeroPad(c[2], 2) \o "-" \o ZeroPad(c[3], 2)

(* ------------------------- the random streams ------------------------- *)
\* raw units of the `random` stream the family of streams is built from
RawSet == {0, 20, 50, Scale - 1}
\* raw units (standard variates) of the `np.random` stream
NpZSet == {-16, -11, -1, 0, 4}

\* the seed both generators pass to random.seed / np.random.seed
SEED == 42

\* The family of generators: the `random` stream yields `base` at every
\* position but `at`, where it yields `v`; the `np.random` stream yields `z`.
\* (`at` = 0 is no position of a stream: that stream yields `base` throughout;
\* the streams that deviate are paired with the median `np.random` stream).
Generators ==
    {g \in [base : RawSet, at : 0..MaxAt, v : RawSet, z : NpZSet] :
        /\ (g.at = 0) <=> (g.v = g.base)
        /\ (g.at # 0) => (g.z = 0)}

\* random.seed(x) and np.random.seed(x): the state of both streams after seeding
\* (a state is the generator, the seeds given, the number of units drawn from
\* each stream, the field the caller is drawing for, and the log of the draws)
Unseeded(g) ==
    [g |-> g, pyseed |-> <<>>, npseed |-> <<>>, py |-> 0, np |-> 0, for |-> "", log |-> <<>>]
random_seed(x, s) == [s EXCEPT !.pyseed = Append(@, x), !.py = 0]
\* the call left out: the stream stays as it was
np_random_seed_none(x, s) == s
np_random_seed(x, s) == [s EXCEPT !.npseed = Append(@, x), !.np = 0]

\* the stream a seed selects: the family describes the stream of SEED, and
\* another seed yields another stream
SeedShift(seeds) == IF seeds = <<>> THEN 0 ELSE (seeds[Len(seeds)] - SEED) * 37

\* the next raw unit of the `random` stream
PyRaw(s) ==
    LET k == s.py + 1
        b == IF k = s.g.at THEN s.g.v ELSE s.g.base
    IN  (b + SeedShift(s.pyseed)) % Scale

\* the next raw unit of the `np.random` stream
NpRaw(s) == s.g.z + SeedShift(s.npseed)

\* one library call on the `random` stream: consumes one unit and logs it
PyDraw(fn, s) ==
    [s EXCEPT !.py = @ + 1,
              !.log = Append(@, [gen |-> "random", fn |-> fn, raw |-> PyRaw(s), for |-> s.for])]
NpDraw(fn, s) ==
    [s EXCEPT !.np = @ + 1,
              !.log = Append(@, [gen |-> "np.random", fn |-> fn, raw |-> NpRaw(s), for |-> s.for])]

\* random.random(): the variate is v / Scale
random_random(s) == [v |-> PyRaw(s), s |-> PyDraw("random", s)]
\* `x < p` for a variate x of random.random() and a probability of pct percent
Below(x, pct) == x * 100 < pct * Scale
\* what a call gives when it raises: the exception and the function that raised
\* it; the streams are as they were
Raise(exception, where, s) == [raise |-> exception, in |-> where, s |-> s]
Raised(r) == "raise" \in DOMAIN r
\* random.choice(seq); an empty seq raises IndexError before any draw
random_choice(seq, s) ==
    IF Len(seq) = 0 THEN Raise("IndexError", "random.choice", s)
    ELSE [v |-> seq[1 + (PyRaw(s) * Len(seq)) \div Scale], s |-> PyDraw("choice", s)]
\* a randint that can return b + 1
random_randint_open(a, b, s) == [v |-> a + (PyRaw(s) * (b - a + 2)) \div Scale, s |-> PyDraw("randint", s)]
\* random.randint(a, b), both ends included
\* an empty range (b < a) raises ValueError before any draw
random_randint(a, b, s) ==
    IF b < a THEN Raise("ValueError", "random.randint", s)
    ELSE [v |-> a + (PyRaw(s) * (b - a + 1)) \div Scale, s |-> PyDraw("randint", s)]
\* random.uniform(a, b) = a + (b - a) * random(): the rational num / den
random_uniform(a, b, s) ==
    [v |-> [num |-> a * Scale + (b - a) * PyRaw(s), den |-> Scale], s |-> PyDraw("uniform", s)]

\* np.random.normal(mu, sigma) for integer mu, sigma
np_random_normal(mu, sigma, s) == [v |-> mu + sigma * NpRaw(s), s |-> NpDraw("normal", s)]
\* int(np.random.lognormal(10.5, 0.5) * 1000) by standard variate -17 .. 5
LOGNORMAL_X1000 ==
    <<7389, 12182, 20085, 33115, 54598, 90017, 148413, 244691, 403428, 665141,
      1096633, 1808042, 2980957, 4914768, 8103083, 13359726, 22026465, 36315502,
      59874141, 98715771, 162754791, 268337286, 442413392>>
np_random_lognormal_x1000(s) ==
    [v |-> LOGNORMAL_X1000[Max(-17, Min(5, NpRaw(s))) + 18], s |-> NpDraw("lognormal", s)]
\* np.random.exponential(scale): scale times a standard exponential variate
np_random_exponential(scale, s) == [v |-> scale * Abs(NpRaw(s)), s |-> NpDraw("exponential", s)]

(* =============== src/fresh/test_data/generate_large_test_data.py ========= *)
COUNTRIES == <<"US", "CA", "UK", "DE", "FR", "AU", "JP", "IT", "BR", "ES", "NL", "SE", "NO", "DK", "FI">>
DEVICE_TYPES == <<"iphone", "android", "desktop", "tablet", "smartwatch">>
OS_VERSIONS ==
    [iphone |-> <<"iOS 16.0", "iOS 16.1", "iOS 16.2", "iOS 16.3", "iOS 16.4", "iOS 16.5",
                  "iOS 16.6", "iOS 17.0", "iOS 17.1", "iOS 17.2">>,
     android |-> <<"Android 12", "Android 13", "Android 14">>,
     desktop |-> <<"Windows 10", "Windows 11", "MacOS 13", "MacOS 14", "Ubuntu 22.04", "Ubuntu 23.04">>,
     tablet |-> <<"iPadOS 16", "iPadOS 17", "Android 13", "Android 14">>,
     smartwatch |-> <<"watchOS 9", "watchOS 10", "WearOS 4">>]
EMAIL_DOMAINS == <<"gmail.com", "outlook.com", "yahoo.com", "hotmail.com", "icloud.com", "protonmail.com">>
REFERRAL_SOURCES == <<"google", "facebook", "instagram", "twitter", "email", "direct", "organic", "paid", "referral">>
PAYMENT_METHODS == <<"credit_card", "paypal", "debit_card", "apple_pay", "google_pay", "bank_transfer">>
SUBSCRIPTION_TYPES == <<"monthly", "annual", "quarterly", "weekly">>
PREMIUM_TIERS == <<"free", "standard", "premium", "enterprise">>

\* null_types, the list every null-injecting generator chooses from
null_types == <<"", "null", "NULL", "-", "N/A">>

\* a lookup in a table that lists the first three device types only
OsVersionsGet_miss(device_type) ==
    IF device_type \in {"iphone", "android", "desktop"} THEN OS_VERSIONS[device_type]
    ELSE <<"Unknown">>

\* OS_VERSIONS.get(device_type, ['Unknown'])
OsVersionsGet(device_type) ==
    IF device_type \in DOMAIN OS_VERSIONS THEN OS_VERSIONS[device_type] ELSE <<"Unknown">>

\* an age that is drawn again when the first draw is outside 18..75
generate_realistic_age_redrawn(s) ==
    LET a == np_random_normal(35, 12, s)
    IN  IF a.v \in 18..75 THEN a ELSE np_random_normal(35, 12, a.s)
\* int(np.random.normal(35, 12))
generate_realistic_age(s) == np_random_normal(35, 12, s)

\* int(np.random.lognormal(10.5, 0.5) * 1000)
generate_realistic_income(s) == np_random_lognormal_x1000(s)

\* a boolean generator that draws the value before it tests for a null
generate_boolean_value_first(null_prob, s) ==
    LET b == random_choice(<<"true", "false">>, s)
        p == random_random(b.s)
    IN  IF Below(p.v, null_prob)
        THEN random_choice(null_types, p.s)
        ELSE [v |-> b.v, s |-> p.s]

\* null probabilities are given in percent
generate_boolean_with_null_probability(null_prob, s) ==
    LET p == random_random(s)
    IN  IF Below(p.v, null_prob)
        THEN random_choice(null_types, p.s)
        ELSE random_choice(<<"true", "false">>, p.s)

\* min_val and max_val are given in hundredths; the result is f"{x:.2f}"
generate_float_with_null_probability(min_val, max_val, null_prob, s) ==
    LET p == random_random(s)
    IN  IF Below(p.v, null_prob)
        THEN random_choice(null_types, p.s)
        ELSE LET u == random_uniform(min_val, max_val, p.s)
             IN  [v |-> Fixed(RoundDiv(u.v.num, u.v.den), 2), s |-> u.s]

generate_integer_with_null_probability(min_val, max_val, null_prob, s) ==
    LET p == random_random(s)
    IN  IF Below(p.v, null_prob)
        THEN random_choice(null_types, p.s)
        ELSE LET n == random_randint(min_val, max_val, p.s)
             IN  IF Raised(n) THEN n ELSE [v |-> Str(n.v), s |-> n.s]

\* start_date and end_date are day numbers
generate_date_with_null_probability(start_date, end_date, null_prob, s) ==
    LET p == random_random(s)
    IN  IF Below(p.v, null_prob)
        THEN random_choice(null_types, p.s)
        ELSE LET days_between == end_date - start_date
                 random_days  == random_randint(0, days_between, p.s)
                 random_date  == start_date + random_days.v
             IN  IF Raised(random_days) THEN random_days
                 ELSE [v |-> StrfDate(random_date), s |-> random_days.s]

generate_time_with_null_probability(null_prob, s) ==
    LET p == random_random(s)
    IN  IF Below(p.v, null_prob)
        THEN random_choice(null_types, p.s)
        ELSE LET hour   == random_randint(0, 23, p.s)
                 minute == random_randint(0, 59, hour.s)
                 second == random_randint(0, 59, minute.s)
             IN  [v |-> ZeroPad(hour.v, 2) \o ":" \o ZeroPad(minute.v, 2) \o ":" \o ZeroPad(second.v, 2),
                  s |-> second.s]

generate_datetime_with_null_probability(start_date, end_date, null_prob, s) ==
    LET p == random_random(s)
    IN  IF Below(p.v, null_prob)
        THEN random_choice(null_types, p.s)
        ELSE LET days_between == end_date - start_date
                 random_days  == random_randint(0, days_between, p.s)
                 random_date  == start_date + random_days.v
                 hour         == random_randint(0, 23, random_days.s)
                 minute       == random_randint(0, 59, hour.s)
                 second       == random_randint(0, 59, minute.s)
                 millisecond  == random_randint(0, 999, second.s)
             IN  IF Raised(random_days) THEN random_days
                 ELSE [v |-> StrfDate(random_date) \o "T" \o ZeroPad(hour.v, 2) \o ":"
                               \o ZeroPad(minute.v, 2) \o ":" \o ZeroPad(second.v, 2) \o "."
                               \o ZeroPad(millisecond.v, 3) \o "Z",
                       s |-> millisecond.s]

generate_realistic_score(s) == generate_float_with_null_probability(0, 10000, 2, s)
generate_realistic_rating(s) == generate_float_with_null_probability(100, 500, 1, s)
generate_realistic_balance(s) == generate_float_with_null_probability(0, 1000000, 5, s)
generate_realistic_spend(s) == generate_float_with_null_probability(0, 50000, 3, s)

\* (lat, lng) of the reference cities, in 1/10000 degree
cities ==
    <<<<407128, -740060>>, <<340522, -1182437>>, <<515074, -1278>>, <<488566, 23522>>,
      <<525200, 134050>>, <<356762, 1396503>>, <<419028, 124964>>, <<-338688, 1512093>>,
      <<436532, -793832>>, <<-235505, -466333>>>>

\* returns lat and lng as rationals of 1/10000 degree
generate_realistic_coordinates(s) ==
    LET base_city == random_choice(cities, s)
        dlat == random_uniform(-1000, 1000, base_city.s)
        dlng == random_uniform(-1000, 1000, dlat.s)
    IN  [v |-> <<[num |-> base_city.v[1] * dlat.v.den + dlat.v.num, den |-> dlat.v.den],
                 [num |-> base_city.v[2] * dlng.v.den + dlng.v.num, den |-> dlng.v.den]>>,
         s |-> dlng.s]

\* str(int(minutes * 60)) with minutes = np.random.exponential(15) + 5
generate_realistic_session_duration(s) ==
    LET e == np_random_exponential(15, s)
    IN  [v |-> Str((e.v + 5) * 60), s |-> e.s]

\* str(int(views)) with views = np.random.exponential(20) + 5
generate_realistic_page_views(s) ==
    LET e == np_random_exponential(20, s)
    IN  [v |-> Str(e.v + 5), s |-> e.s]

generate_realistic_conversion_rate(s) == generate_float_with_null_probability(0, 10, 15, s)
generate_realistic_churn_probability(s) == generate_float_with_null_probability(0, 100, 10, s)

first_names == <<"john", "sarah", "mike", "anna", "pierre", "emma", "taro", "marco", "maria", "carlos">>
last_names == <<"doe", "smith", "wilson", "mueller", "dupont", "brown", "yamamoto", "rossi", "silva", "garcia">>

generate_username(s) ==
    LET p == random_random(s)
    IN  IF Below(p.v, 80)
        THEN LET first == random_choice(first_names, p.s)
                 last  == random_choice(last_names, first.s)
             IN  [v |-> first.v \o "_" \o last.v, s |-> last.s]
        ELSE random_choice(null_types, p.s)

timezones ==
    <<"UTC-8", "UTC-7", "UTC-6", "UTC-5", "UTC-4", "UTC-3", "UTC-2", "UTC-1", "UTC+0", "UTC+1",
      "UTC+2", "UTC+3", "UTC+4", "UTC+5", "UTC+6", "UTC+7", "UTC+8", "UTC+9", "UTC+10",
      "UTC+11", "UTC+12">>
generate_timezone(s) == random_choice(timezones, s)

generate_app_version(s) ==
    LET major == random_randint(1, 3, s)
        minor == random_randint(0, 9, major.s)
        patch == random_randint(0, 9, minor.s)
    IN  [v |-> Str(major.v) \o "." \o Str(minor.v) \o "." \o Str(patch.v), s |-> patch.s]

\* the state s, with the draws that follow labelled as made for `field`
For(field, s) == [s EXCEPT !.for = field]

\* the header list of main, which is also the order of the list generate_row returns
headers ==
    <<"user_id", "age", "income", "is_active", "registration_date", "last_login_time",
      "premium_tier", "country_code", "score", "rating", "has_verified_email", "username",
      "created_at", "login_count", "subscription_type", "payment_method", "account_balance",
      "monthly_spend", "is_premium", "email_domain", "join_date", "timezone",
      "last_purchase_date", "referral_source", "device_type", "os_version", "app_version",
      "location_lat", "location_lng", "session_duration", "page_views", "conversion_rate",
      "churn_probability">>

\* The value of F at e, with e evaluated once: one statement after another
\* (x = e; F(x)).
Bind(e, F(_)) == CHOOSE r \in {F(x) : x \in {e}} : TRUE

\* A frame holds the random streams (s) and the local variables (loc) of a
\* function that is running.  `name = call(...)` for a call that draws:
Assign(f, name, r) == [s |-> r.s, loc |-> (name :> r.v) @@ f.loc]
\* `name = value` for a value that draws nothing:
Local(f, name, value) == [f EXCEPT !.loc = (name :> value) @@ @]

\* the clamps of generate_row
\* an age that is not clamped
ClampAge_off(age) == age
ClampAge(age) == Max(18, Min(75, age))
ClampIncome(income) == Max(20000, Min(200000, income))

\* The statements of generate_row (lines 203-262), in the order of the source.
\* a join_date that is drawn on its own
join_date_redrawn(registration_date, s) ==
    generate_date_with_null_probability(DaysFromCivil(2023, 1, 1), DaysFromCivil(2023, 12, 31), 1, s)
\* line 220: join_date = registration_date; the streams are left alone
join_date(registration_date, s) == [v |-> registration_date, s |-> s]

generate_row_statement(k, f) ==
    CASE k = 1 -> Assign(f, "age", generate_realistic_age(For("age", f.s)))
      [] k = 2 -> Local(f, "age", ClampAge(f.loc.age))
      [] k = 3 -> Assign(f, "income", generate_realistic_income(For("income", f.s)))
      [] k = 4 -> Local(f, "income", ClampIncome(f.loc.income))
      [] k = 5 -> Assign(f, "is_active", generate_boolean_with_null_probability(2, For("is_active", f.s)))
      [] k = 6 -> Assign(f, "has_verified_email", generate_boolean_with_null_probability(3, For("has_verified_email", f.s)))
      [] k = 7 -> Assign(f, "is_premium", generate_boolean_with_null_probability(2, For("is_premium", f.s)))
      [] k = 8 -> Local(f, "start_date", DaysFromCivil(2023, 1, 1))
      [] k = 9 -> Local(f, "end_date", DaysFromCivil(2023, 12, 31))
      [] k = 10 -> Assign(f, "registration_date", generate_date_with_null_probability(f.loc.start_date, f.loc.end_date, 1,
                            For("registration_date", f.s)))
      [] k = 11 -> Assign(f, "join_date", join_date(f.loc.registration_date, For("join_date", f.s)))
      [] k = 12 -> Assign(f, "last_login_time", generate_time_with_null_probability(2, For("last_login_time", f.s)))
      [] k = 13 -> Assign(f, "created_at", generate_datetime_with_null_probability(f.loc.start_date, f.loc.end_date, 1,
                            For("created_at", f.s)))
      [] k = 14 -> Assign(f, "last_purchase_date", generate_datetime_with_null_probability(f.loc.start_date, f.loc.end_date, 5,
                            For("last_purchase_date", f.s)))
      [] k = 15 -> Assign(f, "country_code", random_choice(COUNTRIES, For("country_code", f.s)))
      [] k = 16 -> Assign(f, "premium_tier", random_choice(PREMIUM_TIERS, For("premium_tier", f.s)))
      [] k = 17 -> Assign(f, "subscription_type", random_choice(SUBSCRIPTION_TYPES, For("subscription_type", f.s)))
      [] k = 18 -> Assign(f, "payment_method", random_choice(PAYMENT_METHODS, For("payment_method", f.s)))
      [] k = 19 -> Assign(f, "email_domain", random_choice(EMAIL_DOMAINS, For("email_domain", f.s)))
      [] k = 20 -> Assign(f, "referral_source", random_choice(REFERRAL_SOURCES, For("referral_source", f.s)))
      [] k = 21 -> Assign(f, "device_type", random_choice(DEVICE_TYPES, For("device_type", f.s)))
      [] k = 22 -> Assign(f, "os_version", random_choice(OsVersionsGet(f.loc.device_type), For("os_version", f.s)))
      [] k = 23 -> Assign(f, "score", generate_realistic_score(For("score", f.s)))
      [] k = 24 -> Assign(f, "rating", generate_realistic_rating(For("rating", f.s)))
      [] k = 25 -> Assign(f, "login_count", generate_integer_with_null_probability(0, 500, 2, For("login_count", f.s)))
      [] k = 26 -> Assign(f, "account_balance", generate_realistic_balance(For("account_balance", f.s)))
      [] k = 27 -> Assign(f, "monthly_spend", generate_realistic_spend(For("monthly_spend", f.s)))
      [] k = 28 -> Assign(f, "latlng", generate_realistic_coordinates(For("location", f.s)))
      [] k = 29 -> Local(f, "location_lat", Fixed(RoundDiv(f.loc.latlng[1].num, f.loc.latlng[1].den), 4))
      [] k = 30 -> Local(f, "location_lng", Fixed(RoundDiv(f.loc.latlng[2].num, f.loc.latlng[2].den), 4))
      [] k = 31 -> Assign(f, "session_duration", generate_realistic_session_duration(For("session_duration", f.s)))
      [] k = 32 -> Assign(f, "page_views", generate_realistic_page_views(For("page_views", f.s)))
      [] k = 33 -> Assign(f, "conversion_rate", generate_realistic_conversion_rate(For("conversion_rate", f.s)))
      [] k = 34 -> Assign(f, "churn_probability", generate_realistic_churn_probability(For("churn_probability", f.s)))
      [] k = 35 -> Assign(f, "username", generate_username(For("username", f.s)))
      [] k = 36 -> Assign(f, "timezone", generate_timezone(For("timezone", f.s)))
      [] k = 37 -> Assign(f, "app_version", generate_app_version(For("app_version", f.s)))

generate_row_statements == 37

\* the statements run with the 5th and the 6th in each other's place
RECURSIVE generate_row_run_swapped(_, _)
generate_row_run_swapped(k, f) ==
    IF k > generate_row_statements THEN f
    ELSE Bind(generate_row_statement(IF k = 5 THEN 6 ELSE IF k = 6 THEN 5 ELSE k, f),
              LAMBDA g : generate_row_run_swapped(k + 1, g))

\* the statements from the k-th on, run in order
RECURSIVE generate_row_run(_, _)
generate_row_run(k, f) ==
    IF k > generate_row_statements THEN f
    ELSE Bind(generate_row_statement(k, f), LAMBDA g : generate_row_run(k + 1, g))

\* a returned list with score and rating in each other's place
generate_row_return_swapped(user_id, loc) ==
    <<Str(user_id), Str(loc.age), Str(loc.income), loc.is_active, loc.registration_date,
      loc.last_login_time, loc.premium_tier, loc.country_code, loc.rating, loc.score,
      loc.has_verified_email, loc.username, loc.created_at, loc.login_count,
      loc.subscription_type, loc.payment_method, loc.account_balance, loc.monthly_spend,
      loc.is_premium, loc.email_domain, loc.join_date, loc.timezone, loc.last_purchase_date,
      loc.referral_source, loc.device_type, loc.os_version, loc.app_version, loc.location_lat,
      loc.location_lng, loc.session_duration, loc.page_views, loc.conversion_rate,
      loc.churn_probability>>

\* the list generate_row returns (lines 264-298)
generate_row_return(user_id, loc) ==
    <<Str(user_id), Str(loc.age), Str(loc.income), loc.is_active, loc.registration_date,
      loc.last_login_time, loc.premium_tier, loc.country_code, loc.score, loc.rating,
      loc.has_verified_email, loc.username, loc.created_at, loc.login_count,
      loc.subscription_type, loc.payment_method, loc.account_balance, loc.monthly_spend,
      loc.is_premium, loc.email_domain, loc.join_date, loc.timezone, loc.last_purchase_date,
      loc.referral_source, loc.device_type, loc.os_version, loc.app_version, loc.location_lat,
      loc.location_lng, loc.session_duration, loc.page_views, loc.conversion_rate,
      loc.churn_probability>>

generate_row(user_id, s) ==
    Bind(generate_row_run(1, [s |-> s, loc |-> <<>>]),
         LAMBDA f : [v |-> generate_row_return(user_id, f.loc), s |-> f.s,
                     loc |-> ("user_id" :> user_id) @@ f.loc])

\* ",".join(fields)
RECURSIVE Join(_)
Join(fields) ==
    IF Len(fields) = 0 THEN ""
    ELSE IF Len(fields) = 1 THEN fields[1]
    ELSE Join(SubSeq(fields, 1, Len(fields) - 1)) \o "," \o fields[Len(fields)]

\* [''] * n
RECURSIVE EmptyFields(_)
EmptyFields(n) == IF n <= 0 THEN <<>> ELSE Append(EmptyFields(n - 1), "")

\* a preamble that ends with the header line
file_structure_header_last ==
    <<"# Large Complex Test Dataset",
      "# This file contains ~100,000 rows of realistic data with various distributions and null patterns",
      "# Used to test CSV import functionality, type inference, and data handling",
      "",
      "# Fake header line to test header row selection",
      "Fake Header Line - Ignore This",
      "",
      "# Another fake line",
      "Another fake line with some text",
      "",
      "# Data starts here - 100,000 rows with realistic patterns",
      "",
      "# Real headers start here",
      Join(headers)>>

\* file_structure of main, the lines written before the data rows
file_structure ==
    <<"# Large Complex Test Dataset",
      "# This file contains ~100,000 rows of realistic data with various distributions and null patterns",
      "# Used to test CSV import functionality, type inference, and data handling",
      "",
      "# Fake header line to test header row selection",
      "Fake Header Line - Ignore This",
      "",
      "# Another fake line",
      "Another fake line with some text",
      "",
      "# Real headers start here",
      Join(headers),
      "",
      "# Data starts here - 100,000 rows with realistic patterns">>

garbage_lines ==
    <<"This is a garbage line that should be ignored",
      "ooOOoooo We end here.",
      "Random text that doesn't match the pattern",
      "ERROR: Invalid data format",
      "DEBUG: Processing row data">>

\* the garbage interval of main: 10,000 = 2 * 5,000
GARBAGE_LINE_INTERVAL == 2 * EMPTY_ROW_INTERVAL

\* csvfile.write(line + '\n'): one line of text
FileWrite(f, line) ==
    [f EXCEPT !.lines = Append(@, [via |-> "write", fields |-> <<>>, text |-> line])]
\* csv.writer(csvfile).writerow(fields): the fields joined by commas (no value
\* the generator produces holds a comma, a quote or a line break)
WriterRow(f, fields) ==
    [f EXCEPT !.lines = Append(@, [via |-> "writerow", fields |-> fields, text |-> Join(fields)])]

\* the row main writes every EMPTY_ROW_INTERVAL rows
EmptyRow == EmptyFields(Len(headers))
\* a garbage row of one field
GarbageRow_single(text) == <<text>>
\* the row main writes every GARBAGE_LINE_INTERVAL rows
GarbageRow(text) == <<text>> \o EmptyFields(Len(headers) - 1)

RECURSIVE WriteLines(_, _)
WriteLines(f, lines) ==
    IF Len(lines) = 0 THEN f
    ELSE FileWrite(WriteLines(f, SubSeq(lines, 1, Len(lines) - 1)), lines[Len(lines)])

(* ==================== src/test_data/generate_large_dataset.py ========== *)
\* DUPLICATE_RATIO = 0.3, in percent
DUPLICATE_RATIO == 30
\* the most copies of one base record: random.randint(1, 5)
MAX_DUPLICATES == 5
\* the oldest created_date, in days before the run: random.randint(0, 730)
MAX_DAYS_AGO == 730

DEPARTMENTS == <<"Engineering", "Marketing", "Sales", "HR", "Finance", "Operations", "Legal", "IT">>
NAMES ==
    <<"John", "Jane", "Bob", "Alice", "Charlie", "David", "Emma", "Frank", "Grace", "Henry",
      "Ivy", "Jack", "Kate", "Liam", "Mia", "Noah", "Olivia", "Paul", "Quinn", "Ruby",
      "Sam", "Tina", "Uma", "Victor", "Wendy", "Xander", "Yara", "Zoe", "Alex", "Blake",
      "Casey", "Drew", "Eden", "Finley", "Gray", "Harper", "Indigo", "Jordan", "Kai", "Luna">>

\* Python values, by type (a float is held in tenths: round(x, 1))
PyInt(n) == [int |-> n]
PyStr(x) == [str |-> x]
PyBool(b) == [bool |-> b]
PyFloat1(tenths) == [float |-> tenths]
None == [none |-> TRUE]

\* the text csv.DictWriter writes for a value: str(value), and '' for None
CsvText(x) ==
    IF "int" \in DOMAIN x THEN Str(x.int)
    ELSE IF "str" \in DOMAIN x THEN x.str
    ELSE IF "bool" \in DOMAIN x THEN (IF x.bool THEN "True" ELSE "False")
    ELSE IF "float" \in DOMAIN x THEN Fixed(x.float, 1)
    ELSE ""

\* the keys of a record, in the order generate_record inserts them
fieldnames ==
    <<"group_id", "name", "age", "salary", "is_active", "created_date", "department",
      "rating", "record_id">>

\* a record whose age is tested for null first and drawn only if it is not null
generate_record_null_first(group_id, record_id, now, s) ==
    LET name       == random_choice(NAMES, For("name", s))
        null_age   == random_random(For("age", name.s))
        age        == IF Below(null_age.v, 10) THEN [v |-> 0, s |-> null_age.s]
                      ELSE random_randint(22, 65, For("age", null_age.s))
        salary     == random_randint(30000, 150000, For("salary", age.s))
        is_active  == random_choice(<<TRUE, FALSE>>, For("is_active", salary.s))
        department == random_choice(DEPARTMENTS, For("department", is_active.s))
        rating     == random_uniform(10, 50, For("rating", department.s))
        days_ago   == random_randint(0, MAX_DAYS_AGO, For("created_date", rating.s))
        created_date_str == StrfDate(now - days_ago.v)
        null_sal   == random_random(For("salary", days_ago.s))
        null_rat   == random_random(For("rating", null_sal.s))
        null_dep   == random_random(For("department", null_rat.s))
    IN  [v |-> [group_id     |-> PyStr(group_id),
                name         |-> PyStr(name.v),
                age          |-> IF Below(null_age.v, 10) THEN None ELSE PyInt(age.v),
                salary       |-> IF Below(null_sal.v, 5) THEN None ELSE PyInt(salary.v),
                is_active    |-> PyBool(is_active.v),
                created_date |-> PyStr(created_date_str),
                department   |-> IF Below(null_dep.v, 3) THEN None ELSE PyStr(department.v),
                rating       |-> IF Below(null_rat.v, 8) THEN None
                                 ELSE PyFloat1(RoundDiv(rating.v.num, rating.v.den)),
                record_id    |-> PyInt(record_id)],
         s |-> null_dep.s]

\* `now` is the day datetime.datetime.now() falls on
generate_record(group_id, record_id, now, s) ==
    LET name       == random_choice(NAMES, For("name", s))
        age        == random_randint(22, 65, For("age", name.s))
        salary     == random_randint(30000, 150000, For("salary", age.s))
        is_active  == random_choice(<<TRUE, FALSE>>, For("is_active", salary.s))
        department == random_choice(DEPARTMENTS, For("department", is_active.s))
        rating     == random_uniform(10, 50, For("rating", department.s))
        days_ago   == random_randint(0, MAX_DAYS_AGO, For("created_date", rating.s))
        created_date_str == StrfDate(now - days_ago.v)
        null_age   == random_random(For("age", days_ago.s))
        null_sal   == random_random(For("salary", null_age.s))
        null_rat   == random_random(For("rating", null_sal.s))
        null_dep   == random_random(For("department", null_rat.s))
    IN  [v |-> [group_id     |-> PyStr(group_id),
                name         |-> PyStr(name.v),
                age          |-> IF Below(null_age.v, 10) THEN None ELSE PyInt(age.v),
                salary       |-> IF Below(null_sal.v, 5) THEN None ELSE PyInt(salary.v),
                is_active    |-> PyBool(is_active.v),
                created_date |-> PyStr(created_date_str),
                department   |-> IF Below(null_dep.v, 3) THEN None ELSE PyStr(department.v),
                rating       |-> IF Below(null_rat.v, 8) THEN None
                                 ELSE PyFloat1(RoundDiv(rating.v.num, rating.v.den)),
                record_id    |-> PyInt(record_id)],
         s |-> null_dep.s]

\* a suffix without the number of the copy
DupId_unnumbered(base_record, k) == PyStr(CsvText(base_record.record_id) \o "_dup")
\* a suffix that counts the copies from 0
DupId_from_zero(base_record, k) == PyStr(CsvText(base_record.record_id) \o "_dup_" \o Str(k - 1))
\* f"{base_record['record_id']}_dup_{i+1}"
DupId(base_record, k) == PyStr(CsvText(base_record.record_id) \o "_dup_" \o Str(k))

\* copies of which each but the first is a copy of the copy before it
RECURSIVE create_duplicate_chain(_, _)
create_duplicate_chain(base_record, num_duplicates) ==
    IF num_duplicates <= 0 THEN <<>>
    ELSE LET before == create_duplicate_chain(base_record, num_duplicates - 1)
             from   == IF num_duplicates = 1 THEN base_record ELSE before[num_duplicates - 1]
         IN  Append(before, [from EXCEPT !.record_id = DupId(from, num_duplicates)])

\* The dicts of create_duplicate_records are objects: heap is the list of the
\* dicts there are, a reference is a place in it, and the base record is at 1.
\* a copy that is the dict itself
dict_copy_alias(heap, ref) == [heap |-> heap, ref |-> ref]
\* line 68: base_record.copy() is a new dict with the items of the old one
dict_copy(heap, ref) == [heap |-> Append(heap, heap[ref]), ref |-> Len(heap) + 1]

\* lines 66-70: the loop i = 0 .. num_duplicates - 1; duplicates holds the
\* references appended
RECURSIVE create_duplicate_loop(_, _)
create_duplicate_loop(base_record, num_duplicates) ==
    IF num_duplicates <= 0 THEN [heap |-> <<base_record>>, duplicates |-> <<>>]
    ELSE LET before    == create_duplicate_loop(base_record, num_duplicates - 1)
             duplicate == dict_copy(before.heap, 1)
         IN  [heap |-> [duplicate.heap EXCEPT ![duplicate.ref].record_id =
                                                  DupId(before.heap[1], num_duplicates)],
              duplicates |-> Append(before.duplicates, duplicate.ref)]
\* line 71: the list returned, by the values of the dicts it refers to
create_duplicate_records(base_record, num_duplicates) ==
    LET r == create_duplicate_loop(base_record, num_duplicates)
    IN  [k \in 1..Len(r.duplicates) |-> r.heap[r.duplicates[k]]]
\* the dict passed as base_record, as the call leaves it
base_record_after(base_record, num_duplicates) ==
    create_duplicate_loop(base_record, num_duplicates).heap[1]

\* group identifiers numbered from 1
GroupId_from_one(group_num) == "GROUP_" \o ZeroPad(group_num + 1, 3)
\* f"GROUP_{group_num:03d}"
GroupId(group_num) == "GROUP_" \o ZeroPad(group_num, 3)

\* base records between which the stream is seeded again, from the clock
RECURSIVE BaseRecords_reseeded(_, _, _, _)
BaseRecords_reseeded(n, group_id, now, f) ==
    IF n <= 0 THEN f
    ELSE Bind(generate_record(group_id, f.record_id, now, f.s),
              LAMBDA r : BaseRecords_reseeded(n - 1, group_id, now,
                                     [s |-> random_seed(now, r.s),
                                      group_records |-> Append(f.group_records, r.v),
                                      record_id |-> f.record_id + 1]))

\* lines 88-91: the base records of one group; a frame holds the streams (s),
\* the group's records so far and the record_id counter
RECURSIVE BaseRecords(_, _, _, _)
BaseRecords(n, group_id, now, f) ==
    IF n <= 0 THEN f
    ELSE Bind(generate_record(group_id, f.record_id, now, f.s),
              LAMBDA r : BaseRecords(n - 1, group_id, now,
                                     [s |-> r.s,
                                      group_records |-> Append(f.group_records, r.v),
                                      record_id |-> f.record_id + 1]))

\* a counter that the copies do not advance
AdvanceRecordId_skipped(record_id, num_duplicates) == record_id
\* line 100: record_id += num_duplicates
AdvanceRecordId(record_id, num_duplicates) == record_id + num_duplicates

\* lines 81-102: one iteration of the loop over the groups.  The result holds
\* the streams, the group's records (base records, then the copies), the
\* record_id counter, and what the iteration chose.
GroupIteration(group_num, record_id, now, s) ==
    LET group_id   == GroupId(group_num)
        group_size == random_randint(1, MAX_GROUP_SIZE, For("group_size", s))
    IN  Bind(BaseRecords(group_size.v, group_id, now,
                         [s |-> group_size.s, group_records |-> <<>>, record_id |-> record_id]),
        LAMBDA b :
        Bind(random_random(For("duplicate_ratio", b.s)), LAMBDA d :
        IF Below(d.v, DUPLICATE_RATIO)
        THEN Bind(random_choice(b.group_records, For("base_record", d.s)), LAMBDA base_record :
             Bind(random_randint(1, MAX_DUPLICATES, For("num_duplicates", base_record.s)),
             LAMBDA num_duplicates :
             LET duplicates == create_duplicate_records(base_record.v, num_duplicates.v)
                 \* group_records holds the dict that was passed to the call
                 base == [k \in 1..Len(b.group_records) |->
                             IF b.group_records[k] = base_record.v
                             THEN base_record_after(base_record.v, num_duplicates.v)
                             ELSE b.group_records[k]]
             IN  [s |-> num_duplicates.s,
                  group_records |-> base \o duplicates,
                  record_id |-> AdvanceRecordId(b.record_id, num_duplicates.v),
                  group |-> [group_id |-> group_id, base |-> base,
                             base_record |-> <<base_record.v>>, duplicates |-> duplicates]]))
        ELSE [s |-> d.s,
              group_records |-> b.group_records,
              record_id |-> b.record_id,
              group |-> [group_id |-> group_id, base |-> b.group_records,
                         base_record |-> <<>>, duplicates |-> <<>>]]))

\* an exchange that stores only one of the two elements
Swap_overwrite(x, a, b) == [x EXCEPT ![a] = x[b]]
\* x with the elements at positions a and b (from 1) exchanged
Swap(x, a, b) == [x EXCEPT ![a] = x[b], ![b] = x[a]]

\* random.shuffle(x): for i in reversed(range(1, len(x))): j = randbelow(i + 1);
\* x[i], x[j] = x[j], x[i]   (i and j count from 0)
RECURSIVE ShuffleFrom(_, _, _)
ShuffleFrom(i, x, s) ==
    IF i < 1 THEN [v |-> x, s |-> s]
    ELSE Bind(random_randint(0, i, For("shuffle", s)),
              LAMBDA j : ShuffleFrom(i - 1, Swap(x, i + 1, j.v + 1), j.s))
\* a shuffle that leaves the list as it is and draws nothing
random_shuffle_none(x, s) == [v |-> x, s |-> s]
random_shuffle(x, s) == ShuffleFrom(Len(x) - 1, x, s)

\* writer.writeheader() and one writer.writerow per record
DictRow(record) == [k \in 1..Len(fieldnames) |-> CsvText(record[fieldnames[k]])]

\* a writerows that writes every row twice
RECURSIVE WriteRows_twice(_, _)
WriteRows_twice(f, rows) ==
    IF Len(rows) = 0 THEN f
    ELSE WriterRow(WriterRow(WriteRows_twice(f, SubSeq(rows, 1, Len(rows) - 1)), rows[Len(rows)]),
                   rows[Len(rows)])

\* writer.writerows(rows)
RECURSIVE WriteRows(_, _)
WriteRows(f, rows) ==
    IF Len(rows) = 0 THEN f
    ELSE WriterRow(WriteRows(f, SubSeq(rows, 1, Len(rows) - 1)), rows[Len(rows)])

\* lines 132-150 of main: the figures of the summary it prints
GroupCount(records, group_id) ==
    Cardinality({k \in 1..Len(records) : records[k].group_id = group_id})
GroupIds(records) == {records[k].group_id : k \in 1..Len(records)}
\* sum(count - 1 for count in group_counts.values() if count > 1), over the groups S
RECURSIVE SumExtra(_, _)
SumExtra(records, S) ==
    IF S = {} THEN 0
    ELSE LET g == CHOOSE y \in S : TRUE
         IN  (GroupCount(records, g) - 1) + SumExtra(records, S \ {g})
Summary(records) ==
    LET duplicate_groups == {g \in GroupIds(records) : GroupCount(records, g) > 1}
    IN  [generated |-> Len(records),
         unique_groups |-> Cardinality(GroupIds(records)),
         groups_with_duplicates |-> Cardinality(duplicate_groups),
         total_duplicates |->
             SumExtra(records, duplicate_groups)]

(* ------------------------------- state -------------------------------- *)
VARIABLES
    program,    \* which of the two scripts the process runs
    rng,        \* the two random streams of the process
    pc,         \* the position of the program
    csvfile,    \* the output file: times opened and closed, lines written
    i,          \* generate_large_test_data: the loop counter of main (the user_id)
    row,        \* generate_large_test_data: the row generate_row returned last
    mark,       \* generate_large_test_data: length of the draw log when generate_row was called
    now,        \* generate_large_dataset: the day datetime.now() falls on in this run
    group_num,  \* generate_large_dataset: the loop counter of generate_large_dataset
    record_id,  \* generate_large_dataset: the record_id counter
    records,    \* generate_large_dataset: the list records
    groups,     \* generate_large_dataset: per iteration, group_records as built (base, base_record, duplicates)
    summary,    \* generate_large_dataset: the figures main printed
    run,        \* generate_large_dataset: 1 in the first run of the script, 2 in the run after it
    first,      \* generate_large_dataset: what the first run left behind, once it is over
    locals,     \* generate_large_test_data: the locals of generate_row when it returned last
    error,      \* the exception that left the program, if one did
    call        \* a call of one generator on its own: the function, its arguments, what it gave

ltdvars == <<i, row, mark, locals>>
dsvars == <<now, group_num, record_id, records, groups, summary, run, first>>
vars == <<program, rng, pc, csvfile, i, row, mark,
          now, group_num, record_id, records, groups, summary, run, first, locals, error, call>>

\* no exception, and no call of a generator on its own
NoError == <<>>
NoCall == <<>>
\* the exception an I/O call of the given name raises
OSError(where) == [raise |-> "OSError", in |-> where]

NoFile == [opens |-> 0, closes |-> 0, lines |-> <<>>]

\* the days on which a run may fall
FirstDay == DaysFromCivil(2025, 12, 31)
Days == FirstDay .. (FirstDay + RunDays - 1)

(* ----------------- generate_large_test_data.py: main ------------------ *)
InitLTD ==
    /\ program = "generate_large_test_data"
    /\ \E g \in Generators : rng = Unseeded(g)
    /\ pc = "import"
    /\ csvfile = NoFile
    /\ i = 0
    /\ row = <<>>
    /\ mark = 0
    /\ now = FirstDay
    /\ group_num = 0
    /\ record_id = 0
    /\ records = <<>>
    /\ groups = <<>>
    /\ summary = <<>>
    /\ run = 1
    /\ first = <<>>
    /\ locals = <<>>
    /\ error = NoError
    /\ call = NoCall

\* lines 28-30: the module seeds both streams when it is loaded
ImportModule ==
    /\ program = "generate_large_test_data"
    /\ UNCHANGED <<error, locals>>
    /\ UNCHANGED <<program, dsvars, call>>
    /\ pc = "import"
    /\ rng' = np_random_seed(SEED, random_seed(SEED, rng))
    /\ pc' = "open"
    /\ UNCHANGED <<csvfile, i, row, mark>>

\* line 334: open('test_large_complex.csv', 'w')
OpenFile ==
    /\ program = "generate_large_test_data"
    /\ UNCHANGED <<error, locals>>
    /\ UNCHANGED <<program, dsvars, call>>
    /\ pc = "open"
    /\ csvfile' = [opens |-> csvfile.opens + 1, closes |-> csvfile.closes, lines |-> <<>>]
    /\ pc' = "preamble"
    /\ UNCHANGED <<rng, i, row, mark>>

\* line 334: open raises OSError; nothing was opened, the error leaves main
OpenFails ==
    /\ program = "generate_large_test_data"
    /\ error' = OSError("open")
    /\ UNCHANGED locals
    /\ UNCHANGED <<program, dsvars, call>>
    /\ pc = "open"
    /\ pc' = "raised"
    /\ UNCHANGED <<rng, csvfile, i, row, mark>>

\* lines 336-337: the lines of file_structure, in order
WritePreamble ==
    /\ program = "generate_large_test_data"
    /\ UNCHANGED <<error, locals>>
    /\ UNCHANGED <<program, dsvars, call>>
    /\ pc = "preamble"
    /\ csvfile' = WriteLines(csvfile, file_structure)
    /\ i' = 1
    /\ pc' = IF NUM_ROWS >= 1 THEN "row" ELSE "close"
    /\ UNCHANGED <<rng, row, mark>>

\* a write of the preamble raises after n lines: the with block closes the file
WritePreambleFails ==
    /\ program = "generate_large_test_data"
    /\ error' = OSError("csvfile.write")
    /\ UNCHANGED locals
    /\ UNCHANGED <<program, dsvars, call>>
    /\ pc = "preamble"
    /\ \E n \in 0..(Len(file_structure) - 1) :
          csvfile' = [WriteLines(csvfile, SubSeq(file_structure, 1, n)) EXCEPT !.closes = @ + 1]
    /\ pc' = "raised"
    /\ UNCHANGED <<rng, i, row, mark>>

\* where the loop body goes after the data row, and after the empty row
AfterRow(n) ==
    IF n % EMPTY_ROW_INTERVAL = 0 THEN "empty_row"
    ELSE IF n % GARBAGE_LINE_INTERVAL = 0 THEN "garbage"
    ELSE "next"
\* a loop body whose garbage test is the elif of the empty-row test
AfterEmptyRow_elif(n) == "next"
AfterEmptyRow(n) == IF n % GARBAGE_LINE_INTERVAL = 0 THEN "garbage" ELSE "next"

\* lines 347-348: row = generate_row(i); writer.writerow(row)
WriteDataRow ==
    /\ program = "generate_large_test_data"
    /\ UNCHANGED error
    /\ UNCHANGED <<program, dsvars, call>>
    /\ pc = "row"
    /\ LET r == generate_row(i, rng)
       IN  /\ rng' = r.s
           /\ row' = r.v
           /\ locals' = r.loc
           /\ csvfile' = WriterRow(csvfile, r.v)
    /\ mark' = Len(rng.log)
    /\ pc' = AfterRow(i)
    /\ UNCHANGED i

\* lines 351-352: writer.writerow([''] * len(headers))
WriteEmptyRow ==
    /\ program = "generate_large_test_data"
    /\ UNCHANGED <<error, locals>>
    /\ UNCHANGED <<program, dsvars, call>>
    /\ pc = "empty_row"
    /\ csvfile' = WriterRow(csvfile, EmptyRow)
    /\ pc' = AfterEmptyRow(i)
    /\ UNCHANGED <<rng, i, row, mark>>

\* lines 354-362: writer.writerow([random.choice(garbage_lines)] + [''] * (len(headers) - 1))
WriteGarbageLine ==
    /\ program = "generate_large_test_data"
    /\ UNCHANGED <<error, locals>>
    /\ UNCHANGED <<program, dsvars, call>>
    /\ pc = "garbage"
    /\ LET c == random_choice(garbage_lines, For("garbage", rng))
       IN  /\ rng' = c.s
           /\ csvfile' = WriterRow(csvfile, GarbageRow(c.v))
    /\ pc' = "next"
    /\ UNCHANGED <<i, row, mark>>

\* line 343: for i in range(1, NUM_ROWS + 1)
NextRow ==
    /\ program = "generate_large_test_data"
    /\ UNCHANGED <<error, locals>>
    /\ UNCHANGED <<program, dsvars, call>>
    /\ pc = "next"
    /\ IF i < NUM_ROWS
       THEN i' = i + 1 /\ pc' = "row"
       ELSE i' = i /\ pc' = "close"
    /\ UNCHANGED <<rng, csvfile, row, mark>>

\* a writerow of the loop raises and the loop goes on with the same write
WriteRowFails_retried ==
    /\ program = "generate_large_test_data"
    /\ pc \in {"row", "empty_row", "garbage"}
    /\ error' = OSError("writer.writerow")
    /\ UNCHANGED <<program, dsvars, call, rng, pc, csvfile, i, row, mark, locals>>

\* a writerow of the loop raises and the error leaves main with the file
\* still open
WriteRowFails_unclosed ==
    /\ program = "generate_large_test_data"
    /\ pc \in {"row", "empty_row", "garbage"}
    /\ error' = OSError("writer.writerow")
    /\ pc' = "raised"
    /\ UNCHANGED <<program, dsvars, call, rng, csvfile, i, row, mark, locals>>

\* a writerow of the loop raises: the row in hand was generated (its draws are
\* made), nothing is appended, the with block closes the file
WriteRowFails ==
    /\ program = "generate_large_test_data"
    /\ error' = OSError("writer.writerow")
    /\ UNCHANGED <<program, dsvars, call>>
    /\ pc \in {"row", "empty_row", "garbage"}
    /\ IF pc = "row"
       THEN LET r == generate_row(i, rng)
            IN  rng' = r.s /\ row' = r.v /\ locals' = r.loc /\ mark' = Len(rng.log)
       ELSE IF pc = "garbage"
       THEN rng' = random_choice(garbage_lines, For("garbage", rng)).s
            /\ UNCHANGED <<row, mark, locals>>
       ELSE UNCHANGED <<rng, row, mark, locals>>
    /\ csvfile' = [csvfile EXCEPT !.closes = @ + 1]
    /\ pc' = "raised"
    /\ UNCHANGED i

\* the end of the with block of line 334: the file is closed, main prints and returns
CloseFile ==
    /\ program = "generate_large_test_data"
    /\ UNCHANGED <<error, locals>>
    /\ UNCHANGED <<program, dsvars, call>>
    /\ pc = "close"
    /\ csvfile' = [csvfile EXCEPT !.closes = @ + 1]
    /\ pc' = "done"
    /\ UNCHANGED <<rng, i, row, mark>>

NextLTD ==
    \/ ImportModule
    \/ OpenFile
    \/ OpenFails
    \/ WritePreamble
    \/ WritePreambleFails
    \/ WriteDataRow
    \/ WriteEmptyRow
    \/ WriteGarbageLine
    \/ NextRow
    \/ WriteRowFails
    \/ CloseFile

SpecLTD == InitLTD /\ [][NextLTD]_vars

(* -------------------- generate_large_dataset.py: main ------------------ *)
InitDS ==
    /\ program = "generate_large_dataset"
    /\ \E g \in Generators : g.z = 0 /\ rng = Unseeded(g)
    /\ pc = "main"
    /\ csvfile = NoFile
    /\ i = 0
    /\ row = <<>>
    /\ mark = 0
    /\ now \in Days
    /\ group_num = 0
    /\ record_id = 0
    /\ records = <<>>
    /\ groups = <<>>
    /\ summary = <<>>
    /\ run = 1
    /\ first = <<>>
    /\ locals = <<>>
    /\ error = NoError
    /\ call = NoCall

\* line 126: random.seed(42); lines 76-77: records = [], record_id = 1
SeedMain ==
    /\ program = "generate_large_dataset"
    /\ UNCHANGED error
    /\ pc = "main"
    /\ rng' = random_seed(SEED, rng)
    /\ records' = <<>>
    /\ record_id' = 1
    /\ group_num' = 0
    /\ groups' = <<>>
    /\ pc' = IF NUM_GROUPS >= 1 THEN "group" ELSE "shuffle"
    /\ UNCHANGED <<call, program, csvfile, ltdvars, now, summary, run, first>>

\* lines 80-102: one iteration of for group_num in range(NUM_GROUPS)
BuildGroup ==
    /\ program = "generate_large_dataset"
    /\ UNCHANGED error
    /\ pc = "group"
    /\ LET r == GroupIteration(group_num, record_id, now, rng)
       IN  /\ rng' = r.s
           /\ records' = records \o r.group_records
           /\ record_id' = r.record_id
           /\ groups' = Append(groups, r.group)
    /\ group_num' = group_num + 1
    /\ pc' = IF group_num + 1 < NUM_GROUPS THEN "group" ELSE "shuffle"
    /\ UNCHANGED <<call, program, csvfile, ltdvars, now, summary, run, first>>

\* lines 105-107: random.shuffle(records); return records
ShuffleRecords ==
    /\ program = "generate_large_dataset"
    /\ UNCHANGED error
    /\ pc = "shuffle"
    /\ LET r == random_shuffle(records, rng)
       IN  rng' = r.s /\ records' = r.v
    /\ pc' = "write_csv"
    /\ UNCHANGED <<call, program, csvfile, ltdvars, now, group_num, record_id, groups, summary,
                   run, first>>

\* lines 109-119: write_csv(records, output_file)
write_csv(recs, f) ==
    IF recs = <<>> THEN f
    ELSE LET opened == [opens |-> f.opens + 1, closes |-> f.closes, lines |-> <<>>]
             header == WriterRow(opened, fieldnames)
             body   == [k \in 1..Len(recs) |-> DictRow(recs[k])]
         IN  [WriteRows(header, body) EXCEPT !.closes = @ + 1]

WriteCsv ==
    /\ program = "generate_large_dataset"
    /\ UNCHANGED error
    /\ pc = "write_csv"
    /\ csvfile' = write_csv(records, csvfile)
    /\ pc' = "summary"
    /\ UNCHANGED <<call, program, rng, ltdvars, dsvars>>

\* line 116: open raises OSError; nothing was opened, the error leaves main
WriteCsvOpenFails ==
    /\ program = "generate_large_dataset"
    /\ error' = OSError("open")
    /\ pc = "write_csv"
    /\ records # <<>>
    /\ pc' = "raised"
    /\ UNCHANGED <<call, program, rng, csvfile, ltdvars, dsvars>>

\* lines 117-119: a write raises after n lines (the header is the first): the
\* with block closes the file and the error leaves main
WriteCsvFails ==
    /\ program = "generate_large_dataset"
    /\ error' = OSError("writer.writerow")
    /\ pc = "write_csv"
    /\ records # <<>>
    /\ \E n \in 0..Len(records) :
          LET whole == write_csv(records, csvfile)
          IN  csvfile' = [whole EXCEPT !.lines = SubSeq(@, 1, n)]
    /\ pc' = "raised"
    /\ UNCHANGED <<call, program, rng, ltdvars, dsvars>>

\* lines 132-150: main prints the summary and returns
PrintSummary ==
    /\ program = "generate_large_dataset"
    /\ UNCHANGED error
    /\ pc = "summary"
    /\ summary' = Summary(records)
    /\ pc' = "done"
    /\ UNCHANGED <<call, program, rng, csvfile, ltdvars, now, group_num, record_id, records, groups,
                   run, first>>

\* the script is run a second time, in a new process, on any day: the streams
\* start unseeded, the file of the first run is still on disk until it is
\* opened again
RunAgain ==
    /\ program = "generate_large_dataset"
    /\ UNCHANGED error
    /\ pc = "done"
    /\ run = 1
    /\ first' = [csvfile |-> csvfile, records |-> records, groups |-> groups, now |-> now]
    /\ run' = 2
    /\ now' \in Days
    /\ rng' = Unseeded(rng.g)
    /\ pc' = "main"
    /\ group_num' = 0
    /\ record_id' = 0
    /\ records' = <<>>
    /\ groups' = <<>>
    /\ summary' = <<>>
    /\ UNCHANGED <<call, program, csvfile, ltdvars>>

NextDS ==
    \/ SeedMain
    \/ BuildGroup
    \/ ShuffleRecords
    \/ WriteCsv
    \/ WriteCsvOpenFails
    \/ WriteCsvFails
    \/ PrintSummary
    \/ RunAgain

SpecDS == InitDS /\ [][NextDS]_vars

(* ------------- generate_large_test_data.py: one generator call ---------- *)
\* the ends of the ranges a caller passes (integers; floats in hundredths;
\* dates as day numbers) and the category lists it passes
IntegerEnds == {0, 500}
FloatEnds == {0, 10000}
DateEnds == {DaysFromCivil(2023, 1, 1), DaysFromCivil(2023, 12, 31)}
CategoryLists == {<<>>, <<"monthly">>, SUBSCRIPTION_TYPES}
Calls ==
    [fn : {"generate_integer_with_null_probability"}, min_val : IntegerEnds, max_val : IntegerEnds]
    \cup [fn : {"generate_float_with_null_probability"}, min_val : FloatEnds, max_val : FloatEnds]
    \cup [fn : {"generate_date_with_null_probability"}, min_val : DateEnds, max_val : DateEnds]
    \cup [fn : {"random.choice"}, seq : CategoryLists]

\* the module is imported (both streams seeded, lines 28-30) and one function
\* of it is about to be called
InitCall ==
    /\ program = "call"
    /\ \E g \in Generators :
          /\ g.z = 0 /\ g.at <= 2
          /\ rng = np_random_seed(SEED, random_seed(SEED, Unseeded(g)))
    /\ pc = "call"
    /\ \E c \in Calls : call = c
    /\ csvfile = NoFile
    /\ i = 0
    /\ row = <<>>
    /\ mark = 0
    /\ now = FirstDay
    /\ group_num = 0
    /\ record_id = 0
    /\ records = <<>>
    /\ groups = <<>>
    /\ summary = <<>>
    /\ run = 1
    /\ first = <<>>
    /\ locals = <<>>
    /\ error = NoError

\* the call returns r or raises: the value or the exception is kept in row / error
Returns(r) ==
    /\ rng' = r.s
    /\ IF Raised(r)
       THEN pc' = "raised" /\ error' = [raise |-> r.raise, in |-> r.in] /\ row' = row
       ELSE pc' = "returned" /\ error' = error /\ row' = <<r.v>>
    /\ UNCHANGED <<program, call, csvfile, i, mark, locals, dsvars>>

\* lines 71-76, with the default null_prob of 0.02
CallIntegerGenerator ==
    /\ program = "call" /\ pc = "call"
    /\ call.fn = "generate_integer_with_null_probability"
    /\ Returns(generate_integer_with_null_probability(call.min_val, call.max_val, 2, rng))

\* lines 64-69, with the default null_prob of 0.03
CallFloatGenerator ==
    /\ program = "call" /\ pc = "call"
    /\ call.fn = "generate_float_with_null_probability"
    /\ Returns(generate_float_with_null_probability(call.min_val, call.max_val, 3, rng))

\* lines 78-87, with the default null_prob of 0.01
CallDateGenerator ==
    /\ program = "call" /\ pc = "call"
    /\ call.fn = "generate_date_with_null_probability"
    /\ Returns(generate_date_with_null_probability(call.min_val, call.max_val, 1, rng))

\* a draw from a category list, as in lines 230-236
CallChoice ==
    /\ program = "call" /\ pc = "call"
    /\ call.fn = "random.choice"
    /\ Returns(random_choice(call.seq, rng))

NextCall ==
    \/ CallIntegerGenerator
    \/ CallFloatGenerator
    \/ CallDateGenerator
    \/ CallChoice

SpecCall == InitCall /\ [][NextCall]_vars

(* ----------------------------- both scripts ---------------------------- *)
Init == InitLTD \/ InitDS
Next == NextLTD \/ NextDS
Spec == Init /\ [][Next]_vars

(* ============================== properties ============================= *)
Range(f) == {f[k] : k \in DOMAIN f}

\* the lines of the output of generate_large_test_data after the preamble
DataLines == SubSeq(csvfile.lines, Len(file_structure) + 1, Len(csvfile.lines))
IsEmptyRow(l) == l.via = "writerow" /\ Len(l.fields) >= 1 /\ \A c \in Range(l.fields) : c = ""
IsGarbageLine(l) == l.via = "writerow" /\ Len(l.fields) >= 1 /\ l.fields[1] \in Range(garbage_lines)
IsDataRow(l) == l.via = "writerow" /\ ~IsEmptyRow(l) /\ ~IsGarbageLine(l)
\* data row number n: its user_id field
IsDataRowOf(l, n) == IsDataRow(l) /\ l.fields[1] = Str(n)
CountLines(lines, P(_)) == Cardinality({k \in 1..Len(lines) : P(lines[k])})
LtdRuns == program = "generate_large_test_data"

HeaderIndex(name) == CHOOSE k \in 1..Len(headers) : headers[k] = name
\* the positions, in the draw log, of the draws generate_row made for a field
\* of the row in hand
DrawsOf(field) == {k \in (mark + 1)..Len(rng.log) : rng.log[k].for = field}
RowInHand == LtdRuns /\ row # <<>>

\* C3: in the row generate_row returned, and in every data row written, the
\* os_version is one of OS_VERSIONS[device_type] of the same row and is never
\* 'Unknown'; the one draw for device_type comes before the one for os_version
C3_OsVersionOfDevice ==
    /\ RowInHand =>
          /\ row[HeaderIndex("device_type")] \in DOMAIN OS_VERSIONS
          /\ row[HeaderIndex("os_version")]
                \in Range(OS_VERSIONS[row[HeaderIndex("device_type")]])
          /\ row[HeaderIndex("os_version")] # "Unknown"
          /\ Cardinality(DrawsOf("device_type")) = 1
          /\ Cardinality(DrawsOf("os_version")) = 1
          /\ \A a \in DrawsOf("device_type") : \A b \in DrawsOf("os_version") : a < b
    /\ LtdRuns =>
          \A k \in 1..Len(DataLines) :
              IsDataRow(DataLines[k]) =>
                  /\ DataLines[k].fields[HeaderIndex("device_type")] \in DOMAIN OS_VERSIONS
                  /\ DataLines[k].fields[HeaderIndex("os_version")] \in
                        Range(OS_VERSIONS[DataLines[k].fields[HeaderIndex("device_type")]])
C3_Witness ==
    /\ RowInHand
    /\ row[HeaderIndex("device_type")] = "smartwatch"
    /\ row[HeaderIndex("os_version")] = "WearOS 4"
    /\ \E k \in 1..Len(DataLines) : DataLines[k].fields = row

\* the lines of the preamble that begin with '#'
CommentPositions == {1, 2, 3, 5, 8, 11, 14}
IsCommentLine(l) == l.via = "write" /\ l.text \in {file_structure[k] : k \in CommentPositions}
IsBlankLine(l) == l.via = "write" /\ l.text = ""
IsHeaderLine(l) == l.via = "write" /\ l.text = Join(headers)
PreambleWritten == LtdRuns /\ Len(csvfile.lines) >= Len(file_structure)

\* C8, as the claim states it: once the preamble is written, every comment
\* line and every blank line of it precedes the true header line, and what
\* follows the true header line directly is the first data row
C8_HeaderThenData ==
    PreambleWritten =>
        \E h \in 1..Len(csvfile.lines) :
            /\ IsHeaderLine(csvfile.lines[h])
            /\ \A k \in 1..Len(csvfile.lines) :
                  (IsCommentLine(csvfile.lines[k]) \/ IsBlankLine(csvfile.lines[k])) => k < h
            /\ h < Len(csvfile.lines) => IsDataRowOf(csvfile.lines[h + 1], 1)

\* C8, amended: the file begins with the lines of file_structure in list
\* order; the true header line is the 12th and the only header line; a blank
\* line and a comment line follow it; everything after the 14 lines is a csv
\* row, the first of them data row 1; a preamble cut short is a prefix of
\* file_structure
C8_Preamble ==
    LtdRuns =>
        /\ \A k \in 1..Min(Len(csvfile.lines), Len(file_structure)) :
              csvfile.lines[k].via = "write" /\ csvfile.lines[k].text = file_structure[k]
        /\ PreambleWritten =>
              /\ {k \in 1..Len(csvfile.lines) : IsHeaderLine(csvfile.lines[k])} = {12}
              /\ IsBlankLine(csvfile.lines[13])
              /\ IsCommentLine(csvfile.lines[14])
              /\ \A k \in 1..11 : ~IsDataRow(csvfile.lines[k])
              /\ \A k \in 15..Len(csvfile.lines) : csvfile.lines[k].via = "writerow"
              /\ Len(csvfile.lines) >= 15 => IsDataRowOf(csvfile.lines[15], 1)
C8_Witness ==
    /\ PreambleWritten
    /\ Len(csvfile.lines) >= 15
    /\ IsHeaderLine(csvfile.lines[12])
    /\ IsDataRowOf(csvfile.lines[15], 1)

\* C9, as the claim states it: a garbage line has exactly one field, and an
\* empty row has one empty field per column
C9_SingleColumn ==
    LtdRuns =>
        \A k \in 1..Len(DataLines) :
            /\ IsGarbageLine(DataLines[k]) => Len(DataLines[k].fields) = 1
            /\ IsEmptyRow(DataLines[k]) => Len(DataLines[k].fields) = Len(headers)

\* C9, amended: a garbage line is a row as wide as the header, its first field
\* one of the five texts of garbage_lines and every other field empty, so its
\* text is the free text followed by Len(headers) - 1 commas; an empty row has
\* one empty field per column
C9_GarbageWidth ==
    LtdRuns =>
        \A k \in 1..Len(DataLines) :
            /\ IsGarbageLine(DataLines[k]) =>
                  /\ Len(DataLines[k].fields) = Len(headers)
                  /\ \A c \in 2..Len(DataLines[k].fields) : DataLines[k].fields[c] = ""
                  /\ DataLines[k].text = DataLines[k].fields[1] \o Join(EmptyFields(Len(headers)))
            /\ IsEmptyRow(DataLines[k]) =>
                  /\ Len(DataLines[k].fields) = Len(headers)
                  /\ DataLines[k].text = Join(EmptyFields(Len(headers)))
C9_Witness ==
    /\ LtdRuns
    /\ \E k \in 1..Len(DataLines) :
          IsGarbageLine(DataLines[k]) /\ Len(DataLines[k].fields) = Len(headers)
    /\ \E k \in 1..Len(DataLines) : IsEmptyRow(DataLines[k])

\* the fields generate_row takes from a null-injecting generator: the
\* generator, and the null probability (in percent) of the call
NullInjected ==
    [is_active          |-> [gen |-> "boolean", p |-> 2],
     has_verified_email |-> [gen |-> "boolean", p |-> 3],
     is_premium         |-> [gen |-> "boolean", p |-> 2],
     registration_date  |-> [gen |-> "date", p |-> 1],
     last_login_time    |-> [gen |-> "time", p |-> 2],
     created_at         |-> [gen |-> "datetime", p |-> 1],
     last_purchase_date |-> [gen |-> "datetime", p |-> 5],
     score              |-> [gen |-> "float", p |-> 2],
     rating             |-> [gen |-> "float", p |-> 1],
     login_count        |-> [gen |-> "integer", p |-> 2],
     account_balance    |-> [gen |-> "float", p |-> 5],
     monthly_spend      |-> [gen |-> "float", p |-> 3],
     conversion_rate    |-> [gen |-> "float", p |-> 15],
     churn_probability  |-> [gen |-> "float", p |-> 10]]
\* the draws of the wrapped value generator
ValueDraws ==
    [boolean  |-> <<"choice">>,
     float    |-> <<"uniform">>,
     integer  |-> <<"randint">>,
     date     |-> <<"randint">>,
     time     |-> <<"randint", "randint", "randint">>,
     datetime |-> <<"randint", "randint", "randint", "randint", "randint">>]
\* the draws made for a field of the row in hand, in the order made
DrawSeq(field) == SelectSeq(SubSeq(rng.log, mark + 1, Len(rng.log)), LAMBDA e : e.for = field)
FnSeq(draws) == [k \in 1..Len(draws) |-> draws[k].fn]

\* C10: for every field of the row in hand that a null-injecting generator
\* produced, the first draw is one random.random() and no later draw is; if it
\* is below the null probability the value is one of the five sentinels and the
\* only further draw is the choice of the sentinel; otherwise the value is no
\* sentinel and the further draws are exactly those of the value generator
C10_NullInjection ==
    RowInHand =>
        \A field \in DOMAIN NullInjected :
            LET draws == DrawSeq(field)
                value == row[HeaderIndex(field)]
                g     == NullInjected[field]
            IN  /\ Len(draws) >= 2
                /\ draws[1].fn = "random" /\ draws[1].gen = "random"
                /\ \A k \in 2..Len(draws) : draws[k].fn # "random" /\ draws[k].gen = "random"
                /\ IF Below(draws[1].raw, g.p)
                   THEN /\ value \in Range(null_types)
                        /\ FnSeq(draws) = <<"random", "choice">>
                   ELSE /\ value \notin Range(null_types)
                        /\ FnSeq(draws) = <<"random">> \o ValueDraws[g.gen]
                        /\ g.gen = "boolean" => value \in {"true", "false"}
C10_Witness ==
    /\ RowInHand
    /\ row[HeaderIndex("is_active")] \in Range(null_types)
    /\ Len(DrawSeq("is_active")) = 2
    /\ row[HeaderIndex("created_at")] \notin Range(null_types)
    /\ Len(DrawSeq("created_at")) = 6

DsRuns == program = "generate_large_dataset"
IsDuplicate(r) == "str" \in DOMAIN r.record_id
IsBase(r) == "int" \in DOMAIN r.record_id
\* the positions in records of the rows with a given record_id
RowsWithId(id) == {m \in 1..Len(records) : records[m].record_id = id}
\* the identifier of the c-th copy of base row B
CopyId(B, c) == [str |-> Str(B) \o "_dup_" \o Str(c)]

\* C2: every duplicate row of the dataset is its base row with only the
\* record_id changed, to "B_dup_c"; the n copies of a base row B carry the
\* suffixes 1 .. n, each once, and no other
C2_DuplicatesCopyBase ==
    DsRuns =>
        \A k \in 1..Len(records) :
            IsDuplicate(records[k]) =>
                \E b \in 1..Len(records) :
                    /\ IsBase(records[b])
                    /\ \E n \in 1..MAX_DUPLICATES :
                          /\ \E c \in 1..n :
                                records[k] = [records[b] EXCEPT
                                                 !.record_id = CopyId(records[b].record_id.int, c)]
                          /\ \A c \in 1..n :
                                Cardinality(RowsWithId(CopyId(records[b].record_id.int, c))) = 1
                          /\ \A c \in {0} \cup ((n + 1)..(MAX_DUPLICATES + 1)) :
                                RowsWithId(CopyId(records[b].record_id.int, c)) = {}
C2_Witness ==
    /\ DsRuns
    /\ pc = "done"
    /\ \E k \in 1..Len(records) :
          /\ records[k].record_id = CopyId(1, MAX_DUPLICATES)
          /\ records[k].age = None
          /\ records[k].name # None

\* the texts of the declared domains of generate_row
AgeDomain == {Str(n) : n \in 18..75}
IncomeDomain == {Str(n) : n \in 20000..200000}
ScoreDomain == {Fixed(h, 2) : h \in 0..10000}
RatingDomain == {Fixed(h, 2) : h \in 100..500}
LoginCountDomain == {Str(n) : n \in 0..500}
Sentinels == Range(null_types)
InRowDomains(fields) ==
    /\ fields[HeaderIndex("age")] \in AgeDomain
    /\ fields[HeaderIndex("income")] \in IncomeDomain
    /\ fields[HeaderIndex("score")] \in Sentinels \cup ScoreDomain
    /\ fields[HeaderIndex("rating")] \in Sentinels \cup RatingDomain
    /\ fields[HeaderIndex("login_count")] \in Sentinels \cup LoginCountDomain
InRecordDomains(r) ==
    /\ r.age = None \/ ("int" \in DOMAIN r.age /\ r.age.int \in 22..65)
    /\ r.salary = None \/ ("int" \in DOMAIN r.salary /\ r.salary.int \in 30000..150000)
    /\ r.rating = None \/ ("float" \in DOMAIN r.rating /\ r.rating.float \in 10..50)

\* C4: the row generate_row returned and every data row written have age in
\* 18..75, income in 20000..200000 and, unless a sentinel, score in
\* 0.00..100.00, rating in 1.00..5.00 and login_count in 0..500; every record
\* of generate_record has, unless None, age in 22..65, salary in
\* 30000..150000 and rating in 1.0..5.0
C4_Domains ==
    /\ RowInHand => InRowDomains(row)
    /\ LtdRuns => \A k \in 1..Len(DataLines) :
                      IsDataRow(DataLines[k]) => InRowDomains(DataLines[k].fields)
    /\ DsRuns => \A k \in 1..Len(records) : InRecordDomains(records[k])
C4_Witness ==
    /\ RowInHand
    /\ row[HeaderIndex("age")] = "75"
    /\ row[HeaderIndex("income")] = "200000"
    /\ row[HeaderIndex("score")] \in ScoreDomain
    /\ \E k \in 1..Len(DataLines) : DataLines[k].fields = row

\* the rows of the file, as written
FileText(f) == [k \in 1..Len(f.lines) |-> f.lines[k].text]
SecondRunOver == DsRuns /\ run = 2 /\ pc = "done"

\* C5: the file a second run of generate_large_dataset.py leaves behind, with
\* the same seed, is the file the first run left behind, line for line
C5_SameFile == SecondRunOver => FileText(csvfile) = FileText(first.csvfile)

\* what a run chose for a group: the sizes, and the record_id of the row copied
Composition(g) ==
    [base |-> Len(g.base),
     duplicates |-> Len(g.duplicates),
     base_record |-> [k \in 1..Len(g.base_record) |-> g.base_record[k].record_id]]
RecordIds(recs) == [k \in 1..Len(recs) |-> recs[k].record_id]
Shuffled == pc \in {"write_csv", "summary", "done", "raised"}

\* C6: in a second run with the same seed every group built so far has the
\* base rows, the duplicate rows and the copied base row of the same group of
\* the first run, and after the shuffle the rows are as many and in the same
\* order (by record_id) as in the first run
C6_SameComposition ==
    (DsRuns /\ run = 2) =>
        /\ Len(groups) <= Len(first.groups)
        /\ \A k \in 1..Len(groups) :
              /\ groups[k].group_id = first.groups[k].group_id
              /\ Composition(groups[k]) = Composition(first.groups[k])
        /\ Shuffled =>
              /\ Len(groups) = Len(first.groups)
              /\ Len(records) = Len(first.records)
              /\ RecordIds(records) = RecordIds(first.records)
C6_Witness ==
    /\ SecondRunOver
    /\ now # first.now
    /\ \E k \in 1..Len(groups) : Len(groups[k].duplicates) >= 2
    /\ \E k \in 1..Len(records) : IsBase(records[k]) /\ records[k].record_id.int # k
    /\ FileText(csvfile) # FileText(first.csvfile)

BaseRows == Cardinality({k \in 1..Len(records) : IsBase(records[k])})
DuplicateRows == Cardinality({k \in 1..Len(records) : IsDuplicate(records[k])})
GroupsBuilt == DsRuns /\ (pc = "shuffle" \/ Shuffled)

\* C7: every group gets 1 .. MAX_GROUP_SIZE base rows and at most
\* MAX_DUPLICATES copies; once all NUM_GROUPS groups are built the dataset
\* holds NUM_GROUPS .. NUM_GROUPS * MAX_GROUP_SIZE base rows and
\* 0 .. MAX_DUPLICATES * NUM_GROUPS duplicate rows, and nothing else
C7_RowCounts ==
    DsRuns =>
        /\ \A k \in 1..Len(groups) :
              /\ Len(groups[k].base) \in 1..MAX_GROUP_SIZE
              /\ Len(groups[k].duplicates) \in 0..MAX_DUPLICATES
              /\ Cardinality({m \in 1..Len(records) :
                     IsBase(records[m]) /\ records[m].group_id.str = groups[k].group_id})
                    \in 1..MAX_GROUP_SIZE
        /\ GroupsBuilt =>
              /\ Len(groups) = NUM_GROUPS
              /\ BaseRows \in NUM_GROUPS..(NUM_GROUPS * MAX_GROUP_SIZE)
              /\ DuplicateRows \in 0..(MAX_DUPLICATES * NUM_GROUPS)
              /\ Len(records) = BaseRows + DuplicateRows
C7_Witness ==
    /\ GroupsBuilt
    /\ BaseRows = NUM_GROUPS * MAX_GROUP_SIZE
    /\ DuplicateRows = MAX_DUPLICATES

\* C11: in the row generate_row returned, and in every data row written, the
\* join_date is the registration_date of the same row, sentinel or not, and
\* no draw of the row was made for join_date
C11_JoinDate ==
    /\ RowInHand =>
          /\ row[HeaderIndex("join_date")] = row[HeaderIndex("registration_date")]
          /\ DrawsOf("join_date") = {}
          /\ DrawsOf("registration_date") # {}
    /\ LtdRuns =>
          \A k \in 1..Len(DataLines) :
              IsDataRow(DataLines[k]) =>
                  DataLines[k].fields[HeaderIndex("join_date")]
                      = DataLines[k].fields[HeaderIndex("registration_date")]
C11_Witness ==
    /\ RowInHand
    /\ row[HeaderIndex("registration_date")] \notin Sentinels
    /\ row[HeaderIndex("join_date")] = row[HeaderIndex("registration_date")]
    /\ \E k \in 1..Len(DataLines) :
          /\ IsDataRow(DataLines[k])
          /\ DataLines[k].fields[HeaderIndex("registration_date")] \in Sentinels \ {""}
          /\ DataLines[k].fields[HeaderIndex("join_date")] \in Sentinels \ {""}

\* the identifiers GROUP_000 .. GROUP_(NUM_GROUPS-1), as values of a record
GroupIdentifiers == {[str |-> "GROUP_" \o ZeroPad(n, 3)] : n \in 0..(NUM_GROUPS - 1)}

\* C12: every row of the dataset, base or duplicate, has as group_id one of
\* the NUM_GROUPS identifiers; once all groups are built each identifier has
\* at least one row, so the rows carry NUM_GROUPS distinct group_ids, which
\* is also the figure main prints
C12_GroupIds ==
    DsRuns =>
        /\ \A k \in 1..Len(records) : records[k].group_id \in GroupIdentifiers
        /\ GroupsBuilt =>
              /\ \A g \in GroupIdentifiers : \E k \in 1..Len(records) : records[k].group_id = g
              /\ Cardinality({records[k].group_id : k \in 1..Len(records)}) = NUM_GROUPS
        /\ pc = "done" => summary.unique_groups = NUM_GROUPS
C12_Witness ==
    /\ DsRuns
    /\ pc = "done"
    /\ summary.unique_groups = NUM_GROUPS
    /\ \E k \in 1..Len(records) :
          IsDuplicate(records[k]) /\ records[k].group_id = [str |-> "GROUP_001"]
    /\ \E k \in 1..Len(records) :
          IsBase(records[k]) /\ records[k].group_id = [str |-> "GROUP_000"]

\* the positions in records of the duplicate rows of a group
DuplicatesOf(g) == {k \in 1..Len(records) : IsDuplicate(records[k]) /\ records[k].group_id = g}
\* row d is a copy of base row b: the same in every field but the record_id,
\* which is b's with a suffix _dup_c
IsCopyOf(d, b) ==
    /\ IsDuplicate(d)
    /\ IsBase(b)
    /\ \E c \in 1..MAX_DUPLICATES : d = [b EXCEPT !.record_id = CopyId(b.record_id.int, c)]

\* C13: a group has no duplicate rows or 1 .. MAX_DUPLICATES of them; if it
\* has any, one base row of the same group is the row all of them copy, so a
\* duplicate has the group_id of its base row and is never a copy of a copy;
\* the row the loop picked is one of the group's base rows
C13_OneBasePerGroup ==
    DsRuns =>
        /\ \A g \in GroupIdentifiers :
              /\ Cardinality(DuplicatesOf(g)) \in 0..MAX_DUPLICATES
              /\ DuplicatesOf(g) # {} =>
                    \E b \in 1..Len(records) :
                        /\ IsBase(records[b])
                        /\ records[b].group_id = g
                        /\ \A k \in DuplicatesOf(g) : IsCopyOf(records[k], records[b])
        /\ \A k \in 1..Len(groups) :
              /\ \A n \in 1..Len(groups[k].base_record) :
                    /\ IsBase(groups[k].base_record[n])
                    /\ groups[k].base_record[n] \in Range(groups[k].base)
              /\ (groups[k].duplicates # <<>>) <=> (groups[k].base_record # <<>>)
              /\ Len(groups[k].duplicates)
                    = Cardinality(DuplicatesOf([str |-> groups[k].group_id]))
C13_Witness ==
    /\ DsRuns
    /\ pc = "done"
    /\ \E g \in GroupIdentifiers :
          /\ Cardinality(DuplicatesOf(g)) = MAX_DUPLICATES
          /\ \E k \in DuplicatesOf(g) : records[k].record_id = CopyId(2, 1)
    /\ \E g \in GroupIdentifiers : DuplicatesOf(g) = {}

\* the rows as assembled by the loop over the groups, before the shuffle
RECURSIVE AssembledFrom(_)
AssembledFrom(gs) ==
    IF gs = <<>> THEN <<>>
    ELSE AssembledFrom(SubSeq(gs, 1, Len(gs) - 1)) \o gs[Len(gs)].base \o gs[Len(gs)].duplicates
Assembled == AssembledFrom(groups)
\* the draws the shuffle made, in the order made
ShuffleDraws == SelectSeq(rng.log, LAMBDA e : e.for = "shuffle")
\* x after the exchanges of positions at, at - 1, .. 1 (from 0) with the
\* positions the draws d[n], d[n + 1], .. chose
RECURSIVE Exchanged(_, _, _, _)
Exchanged(x, at, d, n) ==
    IF at < 1 THEN x
    ELSE Exchanged(Swap(x, at + 1, 1 + (d[n].raw * (at + 1)) \div Scale), at - 1, d, n + 1)
\* two rows of which one is a copy of the other, or both are copies of one row
Related(a, b) ==
    \/ IsCopyOf(a, b)
    \/ IsCopyOf(b, a)
    \/ \E m \in 1..Len(records) : IsCopyOf(a, records[m]) /\ IsCopyOf(b, records[m])

\* C14, as the claim states it: after the shuffle no duplicate row is next to
\* its base row or to another copy of its base row
C14_NotAdjacent ==
    (DsRuns /\ Shuffled) =>
        \A k \in 1..(Len(records) - 1) : ~Related(records[k], records[k + 1])

\* C14, amended: the final order is the assembled order after one pass of
\* exchanges, position i with the position the i-th draw chose, for i from the
\* last position down; one draw per exchange, and nothing moves a row after it
C14_ShuffleByDraws ==
    (DsRuns /\ Shuffled) =>
        /\ Len(records) = Len(Assembled)
        /\ Len(ShuffleDraws) = Len(Assembled) - 1
        /\ \A k \in 1..Len(ShuffleDraws) : ShuffleDraws[k].fn = "randint"
        /\ records = Exchanged(Assembled, Len(Assembled) - 1, ShuffleDraws, 1)
C14_Witness ==
    /\ DsRuns
    /\ Shuffled
    /\ records # Assembled
    /\ \E k \in 1..(Len(records) - 1) : IsCopyOf(records[k + 1], records[k])
    /\ \E k \in 1..(Len(records) - 1) :
          /\ IsDuplicate(records[k]) /\ IsDuplicate(records[k + 1])
          /\ Related(records[k], records[k + 1])

\* the data rows of the output of generate_large_test_data, in file order
DataRows == SelectSeq(DataLines, IsDataRow)
\* the text of a record as a csv row, field by field
RecordText(r) ==
    <<r.group_id.str, r.name.str,
      IF r.age = None THEN "" ELSE Str(r.age.int),
      IF r.salary = None THEN "" ELSE Str(r.salary.int),
      IF r.is_active.bool THEN "True" ELSE "False",
      r.created_date.str,
      IF r.department = None THEN "" ELSE r.department.str,
      IF r.rating = None THEN "" ELSE Fixed(r.rating.float, 1),
      IF IsBase(r) THEN Str(r.record_id.int) ELSE r.record_id.str>>

\* C15: the m-th data row of generate_large_test_data is the row of user_id
\* m, so the user_ids written are 1, 2, .. without gap or repeat, and a
\* finished run holds NUM_ROWS data rows; the file of write_csv is one header
\* line and then line k + 1 for record k of the list, for every k, and a
\* write cut short leaves a prefix of that
C15_EachRowOnce ==
    /\ LtdRuns =>
          /\ \A m \in 1..Len(DataRows) : DataRows[m].fields[1] = Str(m)
          /\ Len(DataRows) <= NUM_ROWS
          /\ pc \in {"empty_row", "garbage", "next", "close", "done"} => Len(DataRows) = i
          /\ pc = "done" => Len(DataRows) = NUM_ROWS
          /\ (RowInHand /\ pc # "raised") => DataRows[Len(DataRows)].fields = row
    /\ (DsRuns /\ run = 1) =>
          /\ Len(csvfile.lines) <= Len(records) + 1
          /\ Len(csvfile.lines) >= 1 => csvfile.lines[1].fields = fieldnames
          /\ \A k \in 2..Len(csvfile.lines) : csvfile.lines[k].fields = RecordText(records[k - 1])
          /\ pc \in {"summary", "done"} => Len(csvfile.lines) = Len(records) + 1
          /\ pc \in {"main", "group", "shuffle", "write_csv"} => csvfile.lines = <<>>
C15_Witness ==
    /\ LtdRuns
    /\ pc = "done"
    /\ Len(DataRows) = NUM_ROWS
    /\ Len(DataLines) > NUM_ROWS
    /\ DataRows[NUM_ROWS].fields[1] = Str(NUM_ROWS)

\* a call with a range whose min is above its max, or with no category
InvalidCall ==
    /\ program = "call"
    /\ IF call.fn = "random.choice" THEN call.seq = <<>> ELSE call.min_val > call.max_val
CallOver == program = "call" /\ pc # "call"

\* C16: a call with min > max or with an empty category list ends in an
\* error that is raised before any draw is made and not by a sampling
\* function, and it gives no value
C16_ConfigErrorFirst ==
    (InvalidCall /\ CallOver) =>
        /\ pc = "raised"
        /\ error # NoError
        /\ error.in \notin {"random.randint", "random.choice", "random.uniform", "random.random"}
        /\ rng.log = <<>>
        /\ row = <<>>

ScriptRuns == LtdRuns \/ DsRuns

\* C17: once an I/O error was raised, in either script, the program is over:
\* the error has left main, the file, if it was opened, is closed, and no step
\* follows (no write, no draw, no row), so the error stays as it was raised
C17_IoErrorFatal ==
    /\ [](ScriptRuns /\ error # NoError =>
              /\ pc = "raised"
              /\ error.raise = "OSError"
              /\ csvfile.closes = csvfile.opens)
    /\ [](ScriptRuns /\ pc = "raised" => error # NoError)
    /\ [][error = NoError]_vars
C17_Witness ==
    /\ LtdRuns
    /\ pc = "raised"
    /\ error = OSError("writer.writerow")
    /\ i >= 2
    /\ Len(DataRows) = i - 1
    /\ row[1] = Str(i)

\* the text of the value generate_row holds for a field when it returns
GeneratedFor(field) ==
    IF field \in {"user_id", "age", "income"} THEN Str(locals[field]) ELSE locals[field]

\* C18: the row generate_row returned has one field per header name, and its
\* k-th field is the value generate_row generated for the k-th header name
C18_HeaderOrder ==
    RowInHand =>
        /\ Len(row) = Len(headers)
        /\ Len(headers) = 33
        /\ \A k \in 1..Len(headers) :
              /\ headers[k] \in DOMAIN locals
              /\ row[k] = GeneratedFor(headers[k])
C18_Witness ==
    /\ RowInHand
    /\ Len(row) = 33
    /\ row[1] = "2"
    /\ row[HeaderIndex("score")] = locals.score
    /\ locals.score # locals.rating
    /\ locals.location_lat # locals.location_lng

\* the fields generate_row samples, in the order of its statements (lat and
\* lng are sampled together, as "location")
SamplingOrder ==
    <<"age", "income", "is_active", "has_verified_email", "is_premium", "registration_date",
      "last_login_time", "created_at", "last_purchase_date", "country_code", "premium_tier",
      "subscription_type", "payment_method", "email_domain", "referral_source", "device_type",
      "os_version", "score", "rating", "login_count", "account_balance", "monthly_spend",
      "location", "session_duration", "page_views", "conversion_rate", "churn_probability",
      "username", "timezone", "app_version">>

\* the place of a draw's field in SamplingOrder; a draw for a garbage line
\* comes after the row
OrderIndex(field) ==
    IF field \in Range(SamplingOrder)
    THEN CHOOSE m \in 1..Len(SamplingOrder) : SamplingOrder[m] = field
    ELSE Len(SamplingOrder) + 1
\* the place of a draw's field in the header; 0 for what is not a column
SchemaIndex(field) ==
    IF field \in Range(headers) THEN HeaderIndex(field) ELSE 0

\* C19, as the claim states it: of two sampled fields of a row, the one that
\* is first in the header has its draws first
C19_SchemaOrder ==
    RowInHand =>
        \A k \in (mark + 1)..(Len(rng.log) - 1) :
            LET a == SchemaIndex(rng.log[k].for)
                b == SchemaIndex(rng.log[k + 1].for)
            IN  (a > 0 /\ b > 0) => a <= b

\* C19, amended: the draws of a row are made field by field in the order of
\* the statements of generate_row: every field of SamplingOrder has draws, all
\* of them before those of the fields after it, and no draw of the row is for
\* anything else
C19_StatementOrder ==
    RowInHand =>
        /\ Range(SamplingOrder) \subseteq {rng.log[k].for : k \in (mark + 1)..Len(rng.log)}
        /\ \A k \in (mark + 1)..Len(rng.log) :
              rng.log[k].for \in Range(SamplingOrder) \cup {"garbage"}
        /\ \A k \in (mark + 1)..(Len(rng.log) - 1) :
              OrderIndex(rng.log[k].for) <= OrderIndex(rng.log[k + 1].for)
C19_Witness ==
    /\ RowInHand
    /\ HeaderIndex("has_verified_email") > HeaderIndex("registration_date")
    /\ \A x \in DrawsOf("has_verified_email") : \A y \in DrawsOf("registration_date") : x < y
    /\ DrawsOf("garbage") # {}

\* the draws logged for a stream, and the fields drawn from it
DrawsFrom(gen) == {k \in 1..Len(rng.log) : rng.log[k].gen = gen}
FieldsFrom(gen) == {rng.log[k].for : k \in DrawsFrom(gen)}
\* the fields whose samplers call np.random (lines 48-55 and 155-165)
NumpyFields == {"age", "income", "session_duration", "page_views"}
\* a stream was seeded, once and with SEED, before every draw logged for it:
\* seeding restarts the count of units drawn
SeededOnce(seeds, drawn, gen) ==
    /\ Len(seeds) <= 1
    /\ DrawsFrom(gen) # {} => seeds = <<SEED>>
    /\ Cardinality(DrawsFrom(gen)) = drawn

\* C20, as the claim states it: every draw of a run is from the one stream
\* `random`, seeded once before the first draw, and no other stream is seeded
C20_SingleStream ==
    /\ DrawsFrom("np.random") = {}
    /\ rng.npseed = <<>>
    /\ SeededOnce(rng.pyseed, rng.py, "random")

\* C20, amended: generate_large_test_data draws from two streams, `random`
\* and `np.random`, each seeded once with SEED before its first draw; age,
\* income, session_duration and page_views come from np.random and everything
\* else from random.  generate_large_dataset draws from `random` alone, seeded
\* once with SEED before the first draw.  No draw is from an unseeded stream.
C20_SeededStreams ==
    /\ SeededOnce(rng.pyseed, rng.py, "random")
    /\ SeededOnce(rng.npseed, rng.np, "np.random")
    /\ LtdRuns =>
          /\ FieldsFrom("np.random") \subseteq NumpyFields
          /\ FieldsFrom("random") \cap NumpyFields = {}
          /\ pc # "import" => rng.pyseed = <<SEED>> /\ rng.npseed = <<SEED>>
    /\ DsRuns =>
          /\ DrawsFrom("np.random") = {}
          /\ rng.npseed = <<>>
C20_Witness ==
    /\ LtdRuns
    /\ FieldsFrom("np.random") = NumpyFields
    /\ "score" \in FieldsFrom("random")
    /\ rng.pyseed = <<SEED>>
    /\ rng.npseed = <<SEED>>

\* the opens and the closes of the output file in the run under way (the
\* second run of generate_large_dataset starts from the file of the first)
RunOpens == csvfile.opens - (IF DsRuns /\ run = 2 THEN first.csvfile.opens ELSE 0)
RunCloses == csvfile.closes - (IF DsRuns /\ run = 2 THEN first.csvfile.closes ELSE 0)
IsPrefix(s, t) == Len(s) <= Len(t) /\ SubSeq(t, 1, Len(s)) = s

\* C21: a run opens the output file at most once and never closes it more
\* often than it opened it; a run that is over, by returning or by an error
\* raised after the open, has opened it once and closed it once (an error of
\* the open itself leaves nothing to close); a step changes the lines of the
\* file only by appending to the file while it is open, or by opening it anew
\* when it was closed, so nothing is written after the close
C21_OpenWriteClose ==
    /\ [](/\ RunOpens \in 0..1
          /\ RunCloses \in 0..RunOpens
          /\ pc = "done" => RunOpens = 1 /\ RunCloses = 1
          /\ pc = "raised" =>
                IF error.in = "open" THEN RunOpens = 0 /\ RunCloses = 0
                ELSE RunOpens = 1 /\ RunCloses = 1
          /\ csvfile.lines # <<>> => csvfile.opens >= 1)
    /\ [][csvfile'.lines # csvfile.lines =>
            \/ /\ csvfile'.opens = csvfile.opens
               /\ csvfile.closes < csvfile.opens
               /\ IsPrefix(csvfile.lines, csvfile'.lines)
            \/ /\ csvfile'.opens = csvfile.opens + 1
               /\ csvfile.closes = csvfile.opens]_vars
C21_Witness ==
    /\ pc = "raised"
    /\ error.in = "writer.writerow"
    /\ csvfile.lines # <<>>
    /\ csvfile.opens = 1
    /\ csvfile.closes = 1

\* the value int(np.random.normal(35, 12)) had at a logged draw
AgeDrawn(k) == 35 + 12 * rng.log[k].raw

\* C22: generate_row makes exactly one draw for age, a normal draw of
\* np.random, and the age of the row is 18 when that draw is below 18, 75 when
\* it is above 75, and the draw itself otherwise
C22_AgeClamped ==
    RowInHand =>
        /\ Cardinality(DrawsOf("age")) = 1
        /\ \A k \in DrawsOf("age") :
              /\ rng.log[k].gen = "np.random"
              /\ rng.log[k].fn = "normal"
              /\ row[HeaderIndex("age")] =
                    Str(IF AgeDrawn(k) < 18 THEN 18
                        ELSE IF AgeDrawn(k) > 75 THEN 75
                        ELSE AgeDrawn(k))
C22_Witness ==
    /\ RowInHand
    /\ \E k \in DrawsOf("age") : AgeDrawn(k) < 18
    /\ row[HeaderIndex("age")] = "18"
    /\ i >= 2

\* the value int(np.random.lognormal(10.5, 0.5) * 1000) had at a logged draw
IncomeDrawn(k) == LOGNORMAL_X1000[Max(-17, Min(5, rng.log[k].raw)) + 18]

\* C23, as the claim states it: every value generate_realistic_age returned
\* for the row in hand is in 18..75, and every value generate_realistic_income
\* returned is in 20000..200000
C23_DocstringRanges ==
    RowInHand =>
        /\ \A k \in DrawsOf("age") : AgeDrawn(k) \in 18..75
        /\ \A k \in DrawsOf("income") : IncomeDrawn(k) \in 20000..200000

\* the groups to which generate_large_dataset appended copies
GroupsExtended == {k \in 1..Len(groups) : groups[k].duplicates # <<>>}

\* C24, as the claim states it: the summary main printed gives, as groups with
\* duplicates, the number of groups to which copies were appended and, as
\* total duplicate records, the number of rows create_duplicate_records made
C24_SummaryAccurate ==
    (DsRuns /\ pc = "done") =>
        /\ summary.groups_with_duplicates = Cardinality(GroupsExtended)
        /\ summary.total_duplicates = DuplicateRows

\* C25, as the claim states it: the list generate_large_dataset returns holds
\* NUM_RECORDS records
C25_ConfiguredCount ==
    (DsRuns /\ Shuffled) => Len(records) = NUM_RECORDS

\* C26: no two records of the dataset, as built and as returned, have the
\* same record_id, as values and as the texts written to the file: not two
\* base rows, not two duplicate rows, not a base row and a duplicate row
C26_DistinctIds ==
    DsRuns =>
        \A a \in 1..Len(records) : \A b \in (a + 1)..Len(records) :
            /\ records[a].record_id # records[b].record_id
            /\ CsvText(records[a].record_id) # CsvText(records[b].record_id)
C26_Witness ==
    /\ DsRuns
    /\ pc = "done"
    /\ BaseRows >= 3
    /\ DuplicateRows >= 2
    /\ \E k \in 1..Len(records) : records[k].record_id = CopyId(2, 2)

\* C27: once generate_large_dataset has set it, the record_id counter is 1
\* plus the number of rows, base and duplicate, created so far, and every base
\* row carries the number of its place among the rows in the order created:
\* the identifiers of the base rows increase and skip one value for every copy
\* appended before them
C27_Counter ==
    (DsRuns /\ pc # "main") =>
        /\ record_id = 1 + Len(Assembled)
        /\ \A p \in 1..Len(Assembled) :
              IsBase(Assembled[p]) => Assembled[p].record_id = PyInt(p)
        /\ Len(records) = Len(Assembled)
C27_Witness ==
    /\ GroupsBuilt
    /\ \E p \in 2..Len(Assembled) :
          /\ IsDuplicate(Assembled[p - 1])
          /\ IsBase(Assembled[p])
    /\ record_id = 1 + Len(records)
    /\ DuplicateRows >= 2

\* how many times a row occurs in a list
Occurrences(r, x) == Cardinality({k \in 1..Len(x) : x[k] = r})

\* C28: the list after the shuffle holds the rows built for the groups, every
\* one as many times as before the shuffle, and no other row
C28_Permutation ==
    (DsRuns /\ Shuffled) =>
        /\ Len(records) = Len(Assembled)
        /\ \A r \in Range(records) \cup Range(Assembled) :
              Occurrences(r, records) = Occurrences(r, Assembled)
C28_Witness ==
    /\ DsRuns
    /\ Shuffled
    /\ records # Assembled
    /\ Len(records) >= 4
    /\ DuplicateRows >= 1

\* C29: for every group that got copies, the record passed to
\* create_duplicate_records is, after the call, still among the base rows of
\* the group and once in the dataset with the record_id and every other field
\* it had when it was chosen, and each copy is that record with its own
\* record_id: writing the record_id of one copy changed neither the base
\* record nor another copy
C29_BaseUnchanged ==
    DsRuns =>
        \A k \in 1..Len(groups) :
            groups[k].duplicates # <<>> =>
                LET b == groups[k].base_record[1]
                IN  /\ IsBase(b)
                    /\ Occurrences(b, groups[k].base) = 1
                    /\ Occurrences(b, records) = 1
                    /\ \A c \in 1..Len(groups[k].duplicates) :
                          groups[k].duplicates[c] =
                              [b EXCEPT !.record_id = CopyId(b.record_id.int, c)]
C29_Witness ==
    /\ DsRuns
    /\ pc = "done"
    /\ \E k \in 1..Len(groups) :
          /\ Len(groups[k].duplicates) >= 2
          /\ Len(groups[k].base) = 2
          /\ groups[k].base_record[1] = groups[k].base[2]

\* the draws of one call of generate_record: the field and the library call
RecordDraws ==
    <<<<"name", "choice">>, <<"age", "randint">>, <<"salary", "randint">>,
      <<"is_active", "choice">>, <<"department", "choice">>, <<"rating", "uniform">>,
      <<"created_date", "randint">>, <<"age", "random">>, <<"salary", "random">>,
      <<"rating", "random">>, <<"department", "random">>>>
\* the draws for the name of a record: each is the first draw of one call
NameDraws == {p \in 1..Len(rng.log) : rng.log[p].for = "name"}
\* the base rows created so far
BaseCreated == Cardinality({p \in 1..Len(Assembled) : IsBase(Assembled[p])})

\* C30: every call of generate_record makes the same eleven draws in the same
\* order, the values first and the four null tests after them, whatever
\* fields of the record end up null; the draws for the fields of records are
\* eleven per base row created, and after the eleventh comes the next record
\* or the draw that decides on the copies of the group
C30_SameDraws ==
    DsRuns =>
        /\ Cardinality(NameDraws) = BaseCreated
        /\ \A p \in NameDraws :
              /\ p + Len(RecordDraws) <= Len(rng.log)
              /\ \A j \in 1..Len(RecordDraws) :
                    /\ rng.log[p + j - 1].for = RecordDraws[j][1]
                    /\ rng.log[p + j - 1].fn = RecordDraws[j][2]
              /\ rng.log[p + Len(RecordDraws)].for \in {"name", "duplicate_ratio"}
        /\ Cardinality({p \in 1..Len(rng.log) :
                           rng.log[p].for \in {RecordDraws[j][1] : j \in 1..Len(RecordDraws)}})
              = Len(RecordDraws) * BaseCreated
C30_Witness ==
    /\ DsRuns
    /\ pc = "done"
    /\ \E a \in 1..Len(records) : \E b \in 1..Len(records) :
          /\ IsBase(records[a]) /\ IsBase(records[b])
          /\ records[a].age = None
          /\ records[b].age # None
          /\ records[a].record_id.int < records[b].record_id.int

=============================================================================
